---------------------------- MODULE Spec2Model ----------------------------
(***************************************************************************)
(* A model of the LLM-response ingestion pipeline of the corporate         *)
(* narrative engine (services/geminiService, latest revision):             *)
(*   - the financial reconciliation pass normalizeYear,                    *)
(*   - the JSON extractor safeParseJson,                                   *)
(*   - the month normalizer ensureYearMonths,                              *)
(*   - the chunked bulk generator generateBulkDocuments,                   *)
(*   - the batch controller batchGenerateDocuments.                        *)
(*                                                                         *)
(* JavaScript values are tagged records: the tag t is what typeof and the  *)
(* coercions of the language look at.  A number that is NaN has its own    *)
(* tag; a string is a sequence of one-character strings; an object is a    *)
(* function from property names to values; an exception that leaves a      *)
(* function is the value Throw.                                            *)
(***************************************************************************)
EXTENDS Integers, Sequences, FiniteSets, TLC

VARIABLES
  yIn,        \* normalizeYear: the parsed yearly record as the model supplied it
  yObj,       \* normalizeYear: the same object after the call (it is mutated in place)
  yRet,       \* normalizeYear: what the call returned, Throw, or Pending before the call
  rpc,        \* normalizeYear: "ready" before the call, "returned" or "threw" after it
  pText,      \* safeParseJson: the text it is called on
  pVal,       \* safeParseJson: the value the text is the JSON.stringify of, NoValue for other texts
  pRet,       \* safeParseJson: what the call returned, Throw, or Pending before the call
  ppc,        \* safeParseJson: "ready" before the call, "returned" or "threw" after it
  mIn,        \* ensureYearMonths: the parsed value it is called on
  mRet,       \* ensureYearMonths: what the call returned, or Pending before the call
  mpc,        \* ensureYearMonths: "ready" before the call, "returned" after it
  nFn,        \* the normalizers: which of the three functions is called
  nIn,        \* the normalizers: the parsed value the function is called on
  nRaw,       \* the normalizers: the raw text of the response
  nYears,     \* the normalizers: the expected years
  nRet,       \* the normalizers: what the call returned, Throw, or Pending before the call
  npc,        \* the normalizers: "ready" before the call, "returned" or "threw" after it
  env,        \* the environment: apiKey and chunkYears (VITE_CHUNK_YEARS)
  hist,       \* the history handed to the bulk generator and the batch controller
  llm,        \* the kinds of answer the LLM gives during the run
  kType,      \* generateBulkDocuments: the document type
  kpc,        \* generateBulkDocuments: "ready", "request" (awaiting the LLM), "delay"
              \*   (awaiting the pause between chunks), "returned", "threw", "hung" (in a
              \*   loop that never ends)
  kChunks,    \* generateBulkDocuments: chunks
  kIdx,       \* generateBulkDocuments: the index of the chunk in progress
  kResults,   \* generateBulkDocuments: results
  kResp,      \* history: the response each processed chunk received
  kMark,      \* history: the length of results when each chunk was begun
  kFailed,    \* history: the chunks whose catch block ran
  kDebug,     \* the saved debug responses: request id and text saved, per failed chunk
  made,       \* history: every document a chunk or a single generation produced
  timer,      \* the pending setTimeout in milliseconds, 0 when none
  events,     \* history: the calls of getClient, the LLM requests sent and settled, the delays
              \*   started and the local documents pushed, in the order they happened
  bTypes,     \* batchGenerateDocuments: the requested types
  bpc,        \* batchGenerateDocuments: "ready", "bulk" (awaiting generateBulkDocuments),
              \*   "single" (awaiting generateSingleDocument), "pause", "returned", "rejected"
  bApi,       \* batchGenerateDocuments: the API types still to do, the current one first
  bIdx,       \* batchGenerateDocuments: the index of the year of the per-year fallback
  bResults,   \* batchGenerateDocuments: results
  completedCount, \* batchGenerateDocuments: completedCount
  progress    \* the calls of onProgress, each a pair of count and label

reconVars == <<yIn, yObj, yRet, rpc>>
parseVars == <<pText, pVal, pRet, ppc>>
monthVars == <<mIn, mRet, mpc>>
bulkVars == <<env, hist, llm, kType, kpc, kChunks, kIdx, kResults, kResp, kMark, kFailed, kDebug,
              made, timer, events>>
batchVars == <<bTypes, bpc, bApi, bIdx, bResults, completedCount, progress>>
normVars == <<nFn, nIn, nRaw, nYears, nRet, npc>>
pureVars == <<reconVars, parseVars, monthVars, normVars>>
vars == <<reconVars, parseVars, monthVars, normVars, bulkVars, batchVars>>

-----------------------------------------------------------------------------
(* JavaScript values *)

Undef == [t |-> "undefined"]
Null == [t |-> "null"]
NaN == [t |-> "nan"]
Num(n) == [t |-> "number", v |-> n]
Str(s) == [t |-> "string", v |-> s]
Bool(b) == [t |-> "boolean", v |-> b]
Arr(s) == [t |-> "array", v |-> s]
Obj(r) == [t |-> "object", v |-> r]
Throw == [t |-> "throw"]
Pending == [t |-> "pending"]
NoValue == [t |-> "none"]
EmptyObj == Obj(<<>>)

IsNum(x) == x.t = "number"
IsStr(x) == x.t = "string"
IsArr(x) == x.t = "array"
IsObj(x) == x.t = "object"

\* typeof x === "number" (NaN is a number)
TypeofNumber(x) == x.t \in {"number", "nan"}

\* the truthiness test of ||, ! and if
Truthy(x) ==
  CASE x.t = "number" -> x.v # 0
    [] x.t = "string" -> x.v # <<>>
    [] x.t = "boolean" -> x.v
    [] x.t \in {"array", "object"} -> TRUE
    [] OTHER -> FALSE

\* a || b
Or(a, b) == IF Truthy(a) THEN a ELSE b

\* x == null; reading a property of such a value is a TypeError
Nullish(x) == x.t \in {"null", "undefined"}

\* the properties set on an array besides its elements
Props(o) == IF "p" \in DOMAIN o THEN o.p ELSE <<>>

\* o.k for an object o, or for an array o on which properties were set; a missing property
\* reads as undefined
Get(o, k) ==
  IF IsObj(o) THEN IF k \in DOMAIN o.v THEN o.v[k] ELSE Undef
  ELSE IF IsArr(o) /\ k \in DOMAIN Props(o) THEN Props(o)[k]
  ELSE Undef

\* o.k = x for an object o or an array o
Put(o, k, x) ==
  IF IsArr(o) THEN [t |-> "array", v |-> o.v, p |-> (k :> x) @@ Props(o)]
  ELSE Obj((k :> x) @@ o.v)

\* the one element of a singleton set; {e(x) : x \in {a}} evaluates a once, before e
The(S) == CHOOSE x \in S : TRUE

Whitespace == {" ", "\n", "\t"}
Digits == <<"0", "1", "2", "3", "4", "5", "6", "7", "8", "9">>
DigitSet == {Digits[i] : i \in 1..10}
DigitVal(c) == (CHOOSE i \in 1..10 : Digits[i] = c) - 1

RECURSIVE TrimLeft(_)
TrimLeft(s0) ==
  The({
    IF s # <<>> /\ Head(s) \in Whitespace THEN TrimLeft(Tail(s)) ELSE s
    : s \in {s0}})

RECURSIVE TrimRight(_)
TrimRight(s0) ==
  The({
    IF s # <<>> /\ s[Len(s)] \in Whitespace THEN TrimRight(SubSeq(s, 1, Len(s) - 1)) ELSE s
    : s \in {s0}})

\* String.prototype.trim
Trim(s0) ==
  The({
    TrimRight(TrimLeft(s))
    : s \in {s0}})

RECURSIVE DigitsVal(_)
DigitsVal(s0) ==
  The({
    IF s = <<>> THEN 0 ELSE 10 * DigitsVal(SubSeq(s, 1, Len(s) - 1)) + DigitVal(s[Len(s)])
    : s \in {s0}})

AllDigits(s) == s # <<>> /\ \A i \in 1..Len(s) : s[i] \in DigitSet

\* Number(s) for a string s: blank is 0, a decimal integer is its value, anything else NaN
StrToNumber(s0) ==
  The({
    LET u == Trim(s) IN
    IF u = <<>> THEN Num(0)
    ELSE IF AllDigits(u) THEN Num(DigitsVal(u))
    ELSE IF Head(u) = "-" /\ AllDigits(Tail(u)) THEN Num(0 - DigitsVal(Tail(u)))
    ELSE NaN
    : s \in {s0}})

\* Number(x)
ToNumber(x) ==
  CASE x.t = "number" -> x
    [] x.t = "null" -> Num(0)
    [] x.t = "boolean" -> Num(IF x.v THEN 1 ELSE 0)
    [] x.t = "string" -> StrToNumber(x.v)
    [] x.t = "array" -> IF x.v = <<>> THEN Num(0) ELSE NaN
    [] OTHER -> NaN

RECURSIVE NatChars(_)
NatChars(n0) ==
  The({
    IF n < 10 THEN <<Digits[n + 1]>> ELSE NatChars(n \div 10) \o <<Digits[(n % 10) + 1]>>
    : n \in {n0}})

\* String(n) for an integer n
IntChars(n) == IF n < 0 THEN <<"-">> \o NatChars(0 - n) ELSE NatChars(n)

\* String(x) for the primitives that reach a string concatenation
ToChars(x) ==
  CASE x.t = "number" -> IntChars(x.v)
    [] x.t = "string" -> x.v
    [] x.t = "nan" -> <<"N", "a", "N">>
    [] x.t = "null" -> <<"n", "u", "l", "l">>
    [] x.t = "boolean" -> IF x.v THEN <<"t", "r", "u", "e">> ELSE <<"f", "a", "l", "s", "e">>
    [] OTHER -> <<"u", "n", "d", "e", "f", "i", "n", "e", "d">>

\* a - b
Minus(a, b) ==
  LET x == ToNumber(a)
      y == ToNumber(b)
  IN IF IsNum(x) /\ IsNum(y) THEN Num(x.v - y.v) ELSE NaN

\* a + b: string concatenation as soon as one side is a string
Plus(a, b) ==
  IF IsStr(a) \/ IsStr(b) THEN Str(ToChars(a) \o ToChars(b))
  ELSE LET x == ToNumber(a)
           y == ToNumber(b)
       IN IF IsNum(x) /\ IsNum(y) THEN Num(x.v + y.v) ELSE NaN

\* a > 0
Positive(a) == LET x == ToNumber(a) IN IsNum(x) /\ x.v > 0

-----------------------------------------------------------------------------
(* Each function is exercised by a specification of its own; the variables of the *)
(* other functions then stay at rest.                                             *)

IdleRecon == yIn = Undef /\ yObj = Undef /\ yRet = Pending /\ rpc = "idle"
IdleParse == pText = <<>> /\ pVal = NoValue /\ pRet = Pending /\ ppc = "idle"
IdleMonths == mIn = Undef /\ mRet = Pending /\ mpc = "idle"
IdleNorm ==
  nFn = "" /\ nIn = Undef /\ nRaw = <<>> /\ nYears = <<>> /\ nRet = Pending /\ npc = "idle"
IdleBulk ==
  /\ env = <<>> /\ hist = <<>> /\ llm = {} /\ kType = "" /\ kpc = "idle" /\ kChunks = <<>>
  /\ kIdx = 0 /\ kResults = <<>> /\ kResp = <<>> /\ kMark = <<>> /\ kFailed = {}
  /\ kDebug = <<>> /\ made = {} /\ timer = 0 /\ events = <<>>
  /\ bTypes = <<>> /\ bpc = "idle" /\ bApi = <<>> /\ bIdx = 0 /\ bResults = <<>>
  /\ completedCount = 0 /\ progress = <<>>

-----------------------------------------------------------------------------
(* The financial reconciliation pass: normalizeYear of generateCompanyHistory *)

\* bound: the amounts a supplied field takes are the multiples of 50 from -50 to 50 * MaxAmt
MaxAmt == 2

RECURSIVE SumOver(_, _)
SumOver(o, ks) ==
  IF ks = {} THEN Num(0)
  ELSE LET k == CHOOSE x \in ks : TRUE
       IN Plus(SumOver(o, ks \ {k}), ToNumber(Or(o[k], Num(0))))

\* Object.values(g || {}).reduce((a, b) => a + Number(b || 0), 0)
SumValues(g) ==
  LET o == Or(g, EmptyObj)
  IN IF IsObj(o) THEN SumOver(o.v, DOMAIN o.v) ELSE Num(0)

\* toNum, the final defensive conversion
toNum(x) == IF IsStr(x) /\ Trim(x.v) = <<>> THEN Num(0) ELSE ToNumber(Or(x, Num(0)))

\* Math.round(p * 0.3 * 100) / 100; exact on the model's amounts, which are multiples of 10
TaxEstimate(p) == Num((p.v * 3) \div 10)

\* f.k = Number(a || f.k || 0)
Derive(f, k, a) == Put(f, k, ToNumber(Or(Or(a, Get(f, k)), Num(0))))

\* if (typeof f.tax !== "number" || isNaN(f.tax)) f.tax = preTaxProfit > 0 ? estimate : 0
EstimateTax(f) ==
  IF ~IsNum(Get(f, "tax"))
  THEN Put(f, "tax", IF Positive(Get(f, "preTaxProfit"))
                     THEN TaxEstimate(Get(f, "preTaxProfit")) ELSE Num(0))
  ELSE f

GrossProfit(f) == Derive(f, "grossProfit", Minus(Get(f, "sales"), Get(f, "cogs")))

OperatingProfit(f) == Derive(f, "operatingProfit", Minus(Get(f, "grossProfit"), Get(f, "sga")))

OrdinaryProfit(f) ==
  Derive(f, "ordinaryProfit",
         Minus(Plus(Get(f, "operatingProfit"), Or(Get(f, "nonOperatingIncome"), Num(0))),
               Or(Get(f, "nonOperatingExpenses"), Num(0))))

PreTaxProfit(f) ==
  Derive(f, "preTaxProfit",
         Minus(Plus(Get(f, "ordinaryProfit"), Or(Get(f, "extraordinaryIncome"), Num(0))),
               Or(Get(f, "extraordinaryLoss"), Num(0))))

NetProfit(f) == Derive(f, "netProfit", Minus(Get(f, "preTaxProfit"), Get(f, "tax")))

\* the P&L chain, in the order the code assigns it
ChainPL(f0) ==
  The({The({The({The({The({NetProfit(f5) : f5 \in {EstimateTax(f4)}})
                           : f4 \in {PreTaxProfit(f3)}})
                      : f3 \in {OrdinaryProfit(f2)}})
                 : f2 \in {OperatingProfit(f1)}})
            : f1 \in {GrossProfit(f0)}})

\* a variant that trusts a supplied total and computes one only when none is given
TotalAssets_KeepSupplied(f) ==
  IF IsNum(Get(f, "totalAssets")) THEN f
  ELSE Put(f, "totalAssets",
           ToNumber(Plus(SumValues(Get(f, "currentAssets")), SumValues(Get(f, "fixedAssets")))))

\* f.totalAssets = Number(currentAssetsSum + fixedAssetsSum)
TotalAssets(f) ==
  Put(f, "totalAssets",
      ToNumber(Plus(SumValues(Get(f, "currentAssets")), SumValues(Get(f, "fixedAssets")))))

\* f.totalLiabilities = Number(currentLiabilitiesSum + fixedLiabilitiesSum)
TotalLiabilities(f) ==
  Put(f, "totalLiabilities",
      ToNumber(Plus(SumValues(Get(f, "currentLiabilities")), SumValues(Get(f, "fixedLiabilities")))))

\* targetNetAssets = Number(f.totalAssets - f.totalLiabilities); f.totalNetAssets = targetNetAssets
TotalNetAssets(f) ==
  Put(f, "totalNetAssets", ToNumber(Minus(Get(f, "totalAssets"), Get(f, "totalLiabilities"))))

\* the asset and liability totals and the forced net-assets total
Totals(f0) ==
  The({The({TotalNetAssets(f2) : f2 \in {TotalLiabilities(f1)}}) : f1 \in {TotalAssets(f0)}})

\* a variant that leaves netAssets.other out of the plug
RetainedPlug_NoOther(f) ==
  LET capital == ToNumber(Or(Get(Get(f, "netAssets"), "capitalStock"), Num(0)))
  IN ToNumber(Minus(Get(f, "totalNetAssets"), capital))

\* f.netAssets.retainedEarnings = Number(targetNetAssets - capital - otherNet)
RetainedPlug(f) ==
  LET capital == ToNumber(Or(Get(Get(f, "netAssets"), "capitalStock"), Num(0)))
      otherNet == ToNumber(Or(Get(Get(f, "netAssets"), "other"), Num(0)))
  IN ToNumber(Minus(Minus(Get(f, "totalNetAssets"), capital), otherNet))

\* cashAtEnd recomputed when the four cash-flow inputs are of type number
CashAtEnd(f) ==
  IF /\ TypeofNumber(Get(f, "cashAtBeginning"))
     /\ TypeofNumber(Get(f, "operatingCF"))
     /\ TypeofNumber(Get(f, "investingCF"))
     /\ TypeofNumber(Get(f, "financingCF"))
  THEN Put(f, "cashAtEnd",
           ToNumber(Plus(Plus(Plus(Get(f, "cashAtBeginning"), Get(f, "operatingCF")),
                              Get(f, "investingCF")), Get(f, "financingCF"))))
  ELSE f

CoercedFields ==
  {"sales", "cogs", "sga", "nonOperatingIncome", "nonOperatingExpenses",
   "extraordinaryIncome", "extraordinaryLoss", "operatingCF", "investingCF", "financingCF"}

\* f.sales = toNum(f.sales); ... f.financingCF = toNum(f.financingCF)
Coerce(f) ==
  Obj([k \in DOMAIN f.v \cup CoercedFields |-> IF k \in CoercedFields THEN toNum(Get(f, k)) ELSE f.v[k]])

\* normalizeYear(y): ret is what it returns (Throw for an exception), obj is y after the call.
\* The assignment f.netAssets.retainedEarnings = ... is a TypeError when f.netAssets is not an
\* object; everything assigned before it stays in the shared financials object.
normalizeYear(y) ==
  IF ~Truthy(Get(y, "financials")) THEN [ret |-> y, obj |-> y]
  ELSE The({IF ~IsObj(Get(f3, "netAssets"))
            THEN [ret |-> Throw, obj |-> Put(y, "financials", f3)]
            ELSE The({[ret |-> Put(y, "financials", f5), obj |-> Put(y, "financials", f5)]
                      : f5 \in {Coerce(CashAtEnd(Put(f3, "netAssets",
                                   Put(Get(f3, "netAssets"), "retainedEarnings", RetainedPlug(f3)))))}})
            : f3 \in {Totals(ChainPL(Get(y, "financials")))}})

\* the values a supplied amount takes
Amounts == {Num(50 * k) : k \in (0 - 1)..MaxAmt}

\* what the model leaves out or garbles: a missing field, a blank string, a word
Loose == {Undef, Str(<<>>), Str(<<"x">>)}

\* an object of the fields of r that are present (JSON has no undefined)
Compact(r) == Obj([k \in {j \in DOMAIN r : r[j] # Undef} |-> r[k]])

\* f with the fields of r written over it, a field of value Undef being removed
Override(f, r) == Compact([k \in DOMAIN f.v \cup DOMAIN r |-> IF k \in DOMAIN r THEN r[k] ELSE f.v[k]])

\* a self-consistent financials block, every amount zero
BaseFinancials ==
  Obj([sales |-> Num(0), cogs |-> Num(0), grossProfit |-> Num(0), sga |-> Num(0),
       operatingProfit |-> Num(0), nonOperatingIncome |-> Num(0), nonOperatingExpenses |-> Num(0),
       ordinaryProfit |-> Num(0), extraordinaryIncome |-> Num(0), extraordinaryLoss |-> Num(0),
       preTaxProfit |-> Num(0), tax |-> Num(0), netProfit |-> Num(0),
       currentAssets |-> Obj([cash |-> Num(0), notesReceivable |-> Num(0),
                              accountsReceivable |-> Num(0), inventory |-> Num(0), other |-> Num(0)]),
       fixedAssets |-> Obj([tangible |-> Num(0), intangible |-> Num(0), investments |-> Num(0)]),
       totalAssets |-> Num(0),
       currentLiabilities |-> Obj([notesPayable |-> Num(0), accountsPayable |-> Num(0),
                                   shortTermDebt |-> Num(0), other |-> Num(0)]),
       fixedLiabilities |-> Obj([longTermDebt |-> Num(0), other |-> Num(0)]),
       totalLiabilities |-> Num(0),
       netAssets |-> Obj([capitalStock |-> Num(0), retainedEarnings |-> Num(0), other |-> Num(0)]),
       totalNetAssets |-> Num(0),
       operatingCF |-> Num(0), investingCF |-> Num(0), financingCF |-> Num(0),
       cashAtBeginning |-> Num(0), cashAtEnd |-> Num(0)])

\* the yearly record around a financials block
Yearly(f) == Obj([year |-> Num(2020), revenue |-> Num(100), financials |-> f])

\* a financials block whose P&L fields are as given
PLInput(s, c, g, gp, op, n, tx) ==
  Override(BaseFinancials,
           [sales |-> s, cogs |-> c, sga |-> g, grossProfit |-> gp, operatingProfit |-> op,
            nonOperatingIncome |-> n, tax |-> tx])

\* a balance-sheet group as the model may supply it: missing, or an object of amounts
CurrentAssetsIn ==
  {Undef} \cup
  {Obj([cash |-> a, notesReceivable |-> b, accountsReceivable |-> Num(0), inventory |-> b,
        other |-> Num(0)]) : a \in Amounts \cup {Str(<<>>)}, b \in {Num(0), Num(50)}}

FixedAssetsIn ==
  {Undef} \cup
  {Obj([tangible |-> c, intangible |-> Num(0), investments |-> c]) : c \in {Num(0), Num(50)}}

CurrentLiabilitiesIn ==
  {Undef} \cup
  {Obj([notesPayable |-> d, accountsPayable |-> Num(0), shortTermDebt |-> Num(0),
        other |-> Num(0)]) : d \in Amounts}

FixedLiabilitiesIn ==
  {Undef} \cup {Obj([longTermDebt |-> e, other |-> Num(0)]) : e \in {Num(0), Num(50)}}

NetAssetsIn ==
  {Undef, Null} \cup
  {Compact([capitalStock |-> g, retainedEarnings |-> r, other |-> h]) :
     g \in {Undef, Num(0), Num(50)}, r \in {Undef, Num(50)}, h \in {Num(0), Num(50)}}

\* a financials block whose balance-sheet groups and supplied totals are as given
BSInput(ca, fa, cl, fl, na, tot) ==
  Override(BaseFinancials,
           [currentAssets |-> ca, fixedAssets |-> fa, currentLiabilities |-> cl,
            fixedLiabilities |-> fl, netAssets |-> na,
            totalAssets |-> tot, totalLiabilities |-> tot, totalNetAssets |-> tot])

\* a financials block whose cash-flow fields are as given
CFInput(b, o, i, fi, e) ==
  Override(BaseFinancials,
           [cashAtBeginning |-> b, operatingCF |-> o, investingCF |-> i, financingCF |-> fi,
            cashAtEnd |-> e])

\* the parsed yearly records handed to normalizeYear: no financials block, a null one, or a
\* block that varies in its P&L fields, in its balance-sheet groups or in its cash flows
InitRecon ==
  /\ \/ yIn = Obj([year |-> Num(2020), revenue |-> Num(100)])
     \/ yIn = Yearly(Null)
     \/ \E s \in Amounts \cup Loose, c \in Amounts \cup Loose, g \in Amounts \cup {Undef},
           gp \in {Undef, Num(50), Str(<<"x">>)}, op \in {Undef, Num(50)},
           n \in {Undef, Num(50), Str(<<"x">>)}, tx \in {Undef, Num(0)} :
          yIn = Yearly(PLInput(s, c, g, gp, op, n, tx))
     \/ \E ca \in CurrentAssetsIn, fa \in FixedAssetsIn, cl \in CurrentLiabilitiesIn,
           fl \in FixedLiabilitiesIn, na \in NetAssetsIn, tot \in {Undef, Num(50)} :
          yIn = Yearly(BSInput(ca, fa, cl, fl, na, tot))
     \/ \E b \in Amounts \cup Loose, o \in Amounts \cup Loose, i \in {Num(0), Num(50)},
           fi \in {Num(0), Num(50)}, e \in {Undef, Num(50)} :
          yIn = Yearly(CFInput(b, o, i, fi, e))
  /\ yObj = yIn
  /\ yRet = Pending
  /\ rpc = "ready"
  /\ IdleParse /\ IdleMonths /\ IdleNorm /\ IdleBulk

\* parsed.map(normalizeYear), one record
Reconcile ==
  /\ rpc = "ready"
  /\ \E r \in {normalizeYear(yObj)} :
       /\ yRet' = r.ret
       /\ yObj' = r.obj
       /\ rpc' = IF r.ret = Throw THEN "threw" ELSE "returned"
  /\ UNCHANGED <<yIn, parseVars, monthVars, normVars, bulkVars, batchVars>>

NextRecon == Reconcile

SpecRecon == InitRecon /\ [][NextRecon]_vars

-----------------------------------------------------------------------------
(* JSON.parse and JSON.stringify on texts, a text being a sequence of characters.       *)
(* Numbers are the decimal integers; the escapes are those of the quote, the backslash, *)
(* the slash, the newline and the tab (no text of the model holds a \u escape).         *)

\* the result of a parsing step: the value read and the index after it, or a failure
Ok(x, j) == [ok |-> TRUE, v |-> x, i |-> j]
Fail == [ok |-> FALSE]

RECURSIVE SkipWs(_, _)
SkipWs(s0, i0) ==
  The({
    IF i <= Len(s) /\ s[i] \in Whitespace THEN SkipWs(s, i + 1) ELSE i
    : <<s, i>> \in {<<s0, i0>>}})

\* the property name a sequence of characters spells
RECURSIVE Join(_)
Join(cs0) ==
  The({
    IF cs = <<>> THEN "" ELSE Head(cs) \o Join(Tail(cs))
    : cs \in {cs0}})

\* does s hold the word w at index i
HasWord(s, i, w) == i + Len(w) - 1 <= Len(s) /\ SubSeq(s, i, i + Len(w) - 1) = w

RECURSIVE DigitsEnd(_, _)
DigitsEnd(s0, i0) ==
  The({
    IF i <= Len(s) /\ s[i] \in DigitSet THEN DigitsEnd(s, i + 1) ELSE i
    : <<s, i>> \in {<<s0, i0>>}})

\* int: "0", or a non-zero digit followed by digits
ParseNat(s0, i0) ==
  The({
    IF i > Len(s) \/ s[i] \notin DigitSet THEN Fail
    ELSE IF s[i] = "0" THEN Ok(Num(0), i + 1)
    ELSE LET j == DigitsEnd(s, i) IN Ok(Num(DigitsVal(SubSeq(s, i, j - 1))), j)
    : <<s, i>> \in {<<s0, i0>>}})

ParseNumber(s0, i0) ==
  The({
    IF s[i] = "-"
    THEN LET r == ParseNat(s, i + 1) IN IF r.ok THEN Ok(Num(0 - r.v.v), r.i) ELSE Fail
    ELSE ParseNat(s, i)
    : <<s, i>> \in {<<s0, i0>>}})

\* the character an escape \c stands for
Unescape(c) ==
  CASE c = "\"" -> <<"\"">>
    [] c = "\\" -> <<"\\">>
    [] c = "/" -> <<"/">>
    [] c = "n" -> <<"\n">>
    [] c = "t" -> <<"\t">>
    [] OTHER -> <<>>

\* the characters of a string literal whose opening quote is before index i
RECURSIVE ParseChars(_, _, _)
ParseChars(s0, i0, acc0) ==
  The({
    IF i > Len(s) THEN Fail
    ELSE IF s[i] = "\"" THEN Ok(acc, i + 1)
    ELSE IF s[i] \in {"\n", "\t"} THEN Fail
    ELSE IF s[i] = "\\"
         THEN IF i + 1 > Len(s) \/ Unescape(s[i + 1]) = <<>> THEN Fail
              ELSE ParseChars(s, i + 2, acc \o Unescape(s[i + 1]))
    ELSE ParseChars(s, i + 1, Append(acc, s[i]))
    : <<s, i, acc>> \in {<<s0, i0, acc0>>}})

RECURSIVE ParseValue(_, _)
RECURSIVE ParseElements(_, _, _)
RECURSIVE ParseMembers(_, _, _)

\* the elements of an array after its first one: "]" ends it, "," announces another element
ParseElements(s0, i0, acc0) ==
  The({
    LET j == SkipWs(s, i) IN
    IF j > Len(s) THEN Fail
    ELSE IF s[j] = "]" THEN Ok(Arr(acc), j + 1)
    ELSE IF s[j] # "," THEN Fail
    ELSE The({IF r.ok THEN ParseElements(s, r.i, Append(acc, r.v)) ELSE Fail
              : r \in {ParseValue(s, SkipWs(s, j + 1))}})
    : <<s, i, acc>> \in {<<s0, i0, acc0>>}})

\* one member "name": value at index i, then "}" or "," and the next member
ParseMembers(s0, i0, acc0) ==
  The({
    IF i > Len(s) \/ s[i] # "\"" THEN Fail
    ELSE LET k == ParseChars(s, i + 1, <<>>) IN
         IF ~k.ok THEN Fail
         ELSE LET c == SkipWs(s, k.i) IN
              IF c > Len(s) \/ s[c] # ":" THEN Fail
              ELSE The({IF ~r.ok THEN Fail
                        ELSE LET j == SkipWs(s, r.i) IN
                             IF j > Len(s) THEN Fail
                             ELSE IF s[j] = "}" THEN Ok(Put(acc, Join(k.v), r.v), j + 1)
                             ELSE IF s[j] = ","
                                  THEN ParseMembers(s, SkipWs(s, j + 1), Put(acc, Join(k.v), r.v))
                             ELSE Fail
                        : r \in {ParseValue(s, SkipWs(s, c + 1))}})
    : <<s, i, acc>> \in {<<s0, i0, acc0>>}})

\* the JSON value that starts at index i
ParseValue(s0, i0) ==
  The({
    IF i > Len(s) THEN Fail
    ELSE IF s[i] = "{"
         THEN LET j == SkipWs(s, i + 1)
              IN IF j <= Len(s) /\ s[j] = "}" THEN Ok(EmptyObj, j + 1)
                 ELSE ParseMembers(s, j, EmptyObj)
    ELSE IF s[i] = "["
         THEN LET j == SkipWs(s, i + 1)
              IN IF j <= Len(s) /\ s[j] = "]" THEN Ok(Arr(<<>>), j + 1)
                 ELSE The({IF r.ok THEN ParseElements(s, r.i, <<r.v>>) ELSE Fail
                           : r \in {ParseValue(s, j)}})
    ELSE IF s[i] = "\""
         THEN LET r == ParseChars(s, i + 1, <<>>) IN IF r.ok THEN Ok(Str(r.v), r.i) ELSE Fail
    ELSE IF s[i] = "-" \/ s[i] \in DigitSet THEN ParseNumber(s, i)
    ELSE IF HasWord(s, i, <<"n", "u", "l", "l">>) THEN Ok(Null, i + 4)
    ELSE IF HasWord(s, i, <<"t", "r", "u", "e">>) THEN Ok(Bool(TRUE), i + 4)
    ELSE IF HasWord(s, i, <<"f", "a", "l", "s", "e">>) THEN Ok(Bool(FALSE), i + 5)
    ELSE Fail
    : <<s, i>> \in {<<s0, i0>>}})

\* JSON.parse(s): the value, or Throw for a SyntaxError
JsonParse(s0) ==
  The({
    The({IF r.ok /\ SkipWs(s, r.i) > Len(s) THEN r.v ELSE Throw : r \in {ParseValue(s, SkipWs(s, 1))}})
    : s \in {s0}})

\* the property names JSON.stringify can write, in the order it writes them
KeyTable ==
  << <<"a">>, <<"b">>,
     <<"y", "e", "a", "r", "s">>, <<"y", "e", "a", "r">>, <<"m", "o", "n", "t", "h", "s">>,
     <<"t", "i", "t", "l", "e">>, <<"i", "t", "e", "m", "s">>,
     <<"n", "e", "w", "s", "l", "e", "t", "t", "e", "r", "s">>,
     <<"c", "o", "n", "t", "e", "n", "t">>, <<"d", "e", "b", "i", "t">> >>

\* a character of a string as JSON.stringify writes it
Escape(c) ==
  CASE c = "\"" -> <<"\\", "\"">>
    [] c = "\\" -> <<"\\", "\\">>
    [] c = "\n" -> <<"\\", "n">>
    [] c = "\t" -> <<"\\", "t">>
    [] OTHER -> <<c>>

RECURSIVE EscapeAll(_)
EscapeAll(cs0) ==
  The({
    IF cs = <<>> THEN <<>> ELSE Escape(Head(cs)) \o EscapeAll(Tail(cs))
    : cs \in {cs0}})

Quote(cs0) ==
  The({
    <<"\"">> \o EscapeAll(cs) \o <<"\"">>
    : cs \in {cs0}})

\* the texts of ts with commas between them
RECURSIVE Commas(_)
Commas(ts0) ==
  The({
    IF ts = <<>> THEN <<>>
    ELSE IF Len(ts) = 1 THEN ts[1]
    ELSE ts[1] \o <<",">> \o Commas(Tail(ts))
    : ts \in {ts0}})

\* JSON.stringify(x) for a JSON-encodable x
RECURSIVE Stringify(_)
Stringify(x0) ==
  The({
    CASE x.t = "null" -> <<"n", "u", "l", "l">>
      [] x.t = "boolean" -> ToChars(x)
      [] x.t = "number" -> IntChars(x.v)
      [] x.t = "string" -> Quote(x.v)
      [] x.t = "array" -> <<"[">> \o Commas([i \in 1..Len(x.v) |-> Stringify(x.v[i])]) \o <<"]">>
      [] x.t = "object" ->
           LET ks == SelectSeq(KeyTable, LAMBDA cs : Join(cs) \in DOMAIN x.v)
           IN <<"{">> \o Commas([i \in 1..Len(ks) |-> Quote(ks[i]) \o <<":">> \o Stringify(x.v[Join(ks[i])])])
              \o <<"}">>
    : x \in {x0}})

-----------------------------------------------------------------------------
(* The extractor: safeParseJson *)

\* text.indexOf(c) and text.lastIndexOf(c), counted from 1; 0 when c does not occur
IndexOf(s0, c0) ==
  The({
    IF \E i \in 1..Len(s) : s[i] = c
    THEN CHOOSE i \in 1..Len(s) : s[i] = c /\ \A j \in 1..(i - 1) : s[j] # c
    ELSE 0
    : <<s, c>> \in {<<s0, c0>>}})

LastIndexOf(s0, c0) ==
  The({
    IF \E i \in 1..Len(s) : s[i] = c
    THEN CHOOSE i \in 1..Len(s) : s[i] = c /\ \A j \in (i + 1)..Len(s) : s[j] # c
    ELSE 0
    : <<s, c>> \in {<<s0, c0>>}})

\* text.slice(first, last + 1) parsed, when both delimiters occur in this order; Throw otherwise
TryBetween(text0, open0, close0) ==
  The({
    LET first == IndexOf(text, open)
        last == LastIndexOf(text, close)
    IN IF first # 0 /\ last # 0 /\ last > first
       THEN JsonParse(SubSeq(text, first, last))
       ELSE Throw
    : <<text, open, close>> \in {<<text0, open0, close0>>}})

\* text.split(/\n+/).map(l => l.trim()).filter(Boolean)
RECURSIVE Lines(_)
Lines(s0) ==
  The({
    LET n == IndexOf(s, "\n")
        l == Trim(IF n = 0 THEN s ELSE SubSeq(s, 1, n - 1))
        rest == IF n = 0 THEN <<>> ELSE Lines(SubSeq(s, n + 1, Len(s)))
    IN IF l = <<>> THEN rest ELSE <<l>> \o rest
    : s \in {s0}})

\* each line parsed, a line that does not parse kept as a plain string
ParseLines(text0) ==
  The({
    The({[i \in 1..Len(ls) |-> The({IF r = Throw THEN Str(ls[i]) ELSE r : r \in {JsonParse(ls[i])}})]
         : ls \in {Lines(text)}})
    : text \in {text0}})

\* the last stages: the outermost [...], then line by line
BracketsOrLines(text0) ==
  The({
    The({IF brackets # Throw THEN brackets
         ELSE The({IF ls # <<>> THEN Arr(ls) ELSE Null : ls \in {ParseLines(text)}})
         : brackets \in {TryBetween(text, "[", "]")}})
    : text \in {text0}})

\* a variant whose brace stage returns JSON.parse(sub) outside any try block
safeParseJson_UnguardedBraces(text0) ==
  The({
    IF text = <<>> THEN Null
    ELSE The({IF direct # Throw THEN direct
              ELSE LET first == IndexOf(text, "{")
                       last == LastIndexOf(text, "}")
                   IN IF first # 0 /\ last # 0 /\ last > first
                      THEN JsonParse(SubSeq(text, first, last))
                      ELSE BracketsOrLines(text)
              : direct \in {JsonParse(Trim(text))}})
    : text \in {text0}})

\* a variant that takes a falsy parse result for a failed parse
safeParseJson_FalsyIsFailure(text0) ==
  The({
    IF text = <<>> THEN Null
    ELSE The({IF direct # Throw /\ Truthy(direct) THEN direct
              ELSE The({IF braces # Throw THEN braces ELSE BracketsOrLines(text)
                        : braces \in {TryBetween(text, "{", "}")}})
              : direct \in {JsonParse(Trim(text))}})
    : text \in {text0}})

\* safeParseJson(text): direct parse, then the outermost {...}, then the outermost [...],
\* then line by line; every JSON.parse sits in a try block
safeParseJson(text0) ==
  The({
    IF text = <<>> THEN Null
    ELSE The({IF direct # Throw THEN direct
              ELSE The({IF braces # Throw THEN braces ELSE BracketsOrLines(text)
                        : braces \in {TryBetween(text, "{", "}")}})
              : direct \in {JsonParse(Trim(text))}})
    : text \in {text0}})

\* bounds: the length of the arbitrary texts, and the length of the arrays that are stringified
MaxLen == 4
MaxElems == 2

\* the characters of the arbitrary texts: delimiters, a digit, a letter, blank and newline
Sigma == {"{", "}", "[", "]", "\"", ",", "1", "x", " ", "\n"}

Texts == UNION {[1..n -> Sigma] : n \in 0..MaxLen}

\* prose around JSON, prose alone, prose with unbalanced delimiters
Prose == <<"n", "o", "t", " ", "j", "s", "o", "n">>

\* the JSON-encodable values that are stringified
Atoms ==
  {Null, Bool(TRUE), Bool(FALSE), Num(0), Num(7), Num(0 - 12), Str(<<>>), Str(<<"x">>),
   Str(<<"a", "\"", "\\", "\n", " ", "{">>)}

ArraysOf(S) == {Arr(q) : q \in UNION {[1..n -> S] : n \in 0..MaxElems}}

ObjectsOf(S) == {Obj(r) : r \in UNION {[K -> S] : K \in SUBSET {"a", "b"}}}

Flat == Atoms \cup ArraysOf(Atoms) \cup ObjectsOf(Atoms)

JsonValues == Flat \cup {Arr(<<x>>) : x \in Flat} \cup {Obj([a |-> x]) : x \in Flat}

\* the texts handed to safeParseJson: arbitrary short texts, stringified values, stringified
\* values inside prose, and stringified values cut short
InitParse ==
  /\ \/ \E t \in Texts : pText = t /\ pVal = NoValue
     \/ \E x \in JsonValues : pText = Stringify(x) /\ pVal = x
     \/ \E x \in Flat : pText = Prose \o Stringify(x) \o Prose /\ pVal = NoValue
     \/ \E x \in Flat : pText = SubSeq(Stringify(x), 1, Len(Stringify(x)) - 1) /\ pVal = NoValue
     \/ pText = Prose /\ pVal = NoValue
  /\ pRet = Pending
  /\ ppc = "ready"
  /\ IdleRecon /\ IdleMonths /\ IdleNorm /\ IdleBulk

\* safeParseJson(text)
Extract ==
  /\ ppc = "ready"
  /\ \E r \in {safeParseJson(pText)} :
       /\ pRet' = r
       /\ ppc' = IF r = Throw THEN "threw" ELSE "returned"
  /\ UNCHANGED <<pText, pVal, reconVars, monthVars, normVars, bulkVars, batchVars>>

NextParse == Extract

SpecParse == InitParse /\ [][NextParse]_vars

-----------------------------------------------------------------------------
(* The month normalizer: ensureYearMonths.  The character U+6708 (month) of *)
(* the titles is written M.                                                 *)

\* bounds: the number of year entries, and the length of the arbitrary month lists
MaxYears == 2
MaxMonths == 2

MonthNames ==
  << <<"4", "M">>, <<"5", "M">>, <<"6", "M">>, <<"7", "M">>, <<"8", "M">>, <<"9", "M">>,
     <<"1", "0", "M">>, <<"1", "1", "M">>, <<"1", "2", "M">>, <<"1", "M">>, <<"2", "M">>,
     <<"3", "M">> >>

\* the default month titles, April to March
MonthTitles == [i \in 1..Len(MonthNames) |-> Str(MonthNames[i])]

\* String(x)
RECURSIVE StringOf(_)
StringOf(x0) ==
  The({
    CASE x.t = "object" ->
           <<"[", "o", "b", "j", "e", "c", "t", " ", "O", "b", "j", "e", "c", "t", "]">>
      [] x.t = "array" ->
           Commas([i \in 1..Len(x.v) |->
                     IF x.v[i].t \in {"null", "undefined"} THEN <<>> ELSE StringOf(x.v[i])])
      [] OTHER -> ToChars(x)
    : x \in {x0}})

\* String(x) and Number(x) throw a TypeError: x is an object whose own toString property
\* hides the inherited method (no parsed value is callable), or an array holding such an
\* object, which join reaches
RECURSIVE NotConvertible(_)
NotConvertible(x0) ==
  The({
    IF x.t = "object" THEN "toString" \in DOMAIN x.v
    ELSE IF x.t = "array" THEN \E i \in 1..Len(x.v) : NotConvertible(x.v[i])
    ELSE FALSE
    : x \in {x0}})

\* typeof x === "object"
TypeofObject(x) == x.t \in {"object", "array", "null"}

\* { title: t, items: [] }
EmptyBucket(t) == Obj([title |-> t, items |-> Arr(<<>>)])

\* one existing month entry, normalised to have a title and an items array
NormalizeMonth(m) ==
  IF ~Truthy(m) \/ ~TypeofObject(m)
  THEN EmptyBucket(Str(StringOf(Or(m, Str(<<>>)))))
  ELSE LET m1 == IF ~IsArr(Get(m, "items")) THEN Put(m, "items", Arr(<<>>)) ELSE m
       IN IF ~Truthy(Get(m1, "title"))
          THEN Put(m1, "title", Str(StringOf(Or(Get(m1, "title"), Str(<<>>)))))
          ELSE m1

\* one entry of parsed.years
EnsureMonths(y, monthTitles) ==
  IF ~Truthy(y) \/ ~TypeofObject(y) THEN y
  ELSE IF ~IsArr(Get(y, "months")) \/ Get(y, "months").v = <<>>
       THEN Put(y, "months", Arr([i \in 1..Len(monthTitles) |-> EmptyBucket(monthTitles[i])]))
       ELSE Put(y, "months",
                Arr([i \in 1..Len(Get(y, "months").v) |-> NormalizeMonth(Get(y, "months").v[i])]))

\* ensureYearMonths(parsed)
ensureYearMonths(parsed) ==
  IF ~Truthy(parsed) \/ ~IsArr(Get(parsed, "years")) THEN parsed
  ELSE LET supplied == Get(parsed, "months")
           monthTitles == IF IsArr(supplied)
                          THEN [i \in 1..Len(supplied.v) |-> Str(StringOf(supplied.v[i]))]
                          ELSE MonthTitles
       IN IF IsArr(supplied) /\ NotConvertible(supplied) THEN Throw
          ELSE Put(parsed, "years",
                   Arr([i \in 1..Len(Get(parsed, "years").v) |->
                          EnsureMonths(Get(parsed, "years").v[i], monthTitles)]))

\* a journal line
Line == Obj([title |-> Str(<<"x">>)])

\* what the model may put where a month bucket belongs
MonthEntries ==
  {EmptyBucket(MonthTitles[1]), Obj([title |-> MonthTitles[2], items |-> Arr(<<Line>>)]),
   Obj([title |-> MonthTitles[1]]), Obj([items |-> Arr(<<Line>>)]), MonthTitles[1], Null}

\* the month lists of a year entry: short arbitrary ones, the twelve buckets, thirteen buckets
MonthLists ==
  UNION {[1..n -> MonthEntries] : n \in 0..MaxMonths}
  \cup {[i \in 1..12 |-> EmptyBucket(MonthTitles[i])],
        [i \in 1..13 |-> EmptyBucket(MonthTitles[((i - 1) % 12) + 1])]}

\* the entries of parsed.years: objects with or without months, and values that are no objects
YearEntries ==
  {Obj([year |-> Num(2020)]), Obj([year |-> Num(2020), months |-> Str(<<"x">>)]), Null, Num(2020)}
  \cup {Obj([year |-> Num(2020), months |-> Arr(ms)]) : ms \in MonthLists}

\* a top-level months property: absent, empty, two custom titles, the twelve titles
TopMonths ==
  {Undef, Arr(<<>>), Arr(<<Str(<<"Q", "1">>), Num(2)>>), Arr(MonthTitles)}

\* the parsed values handed to ensureYearMonths
InitMonths ==
  /\ \/ mIn \in {Null, Str(<<"x">>), EmptyObj, Arr(<<>>), Obj([years |-> Str(<<"x">>)])}
     \/ \E top \in TopMonths, ys \in UNION {[1..n -> YearEntries] : n \in 0..MaxYears} :
          mIn = Compact([years |-> Arr(ys), months |-> top])
  /\ mRet = Pending
  /\ mpc = "ready"
  /\ IdleRecon /\ IdleParse /\ IdleNorm /\ IdleBulk

\* ensureYearMonths(parsed)
Ensure ==
  /\ mpc = "ready"
  /\ mRet' = ensureYearMonths(mIn)
  /\ mpc' = "returned"
  /\ UNCHANGED <<mIn, reconVars, parseVars, normVars, bulkVars, batchVars>>

NextMonths == Ensure

SpecMonths == InitMonths /\ [][NextMonths]_vars

-----------------------------------------------------------------------------
(* String methods and the regular expressions of the normalizers.  Indices are *)
(* those of JavaScript: the first character has index 0, -1 means not found.   *)

\* s.indexOf(w, from) for a non-empty w
indexOf(s0, w0, from0) ==
  The({
    LET at == {i \in from..(Len(s) - Len(w)) : SubSeq(s, i + 1, i + Len(w)) = w}
    IN IF at = {} THEN 0 - 1 ELSE CHOOSE i \in at : \A j \in at : i <= j
    : <<s, w, from>> \in {<<s0, w0, from0>>}})

\* s.includes(w)
includes(s, w) == indexOf(s, w, 0) # 0 - 1

\* s.startsWith(w)
startsWith(s, w) == Len(w) <= Len(s) /\ SubSeq(s, 1, Len(w)) = w

\* s.slice(a, b) for 0 <= a; s.slice(a) is slice(s, a, Len(s))
slice(s0, a0, b0) ==
  The({
    SubSeq(s, a + 1, IF b < Len(s) THEN b ELSE Len(s))
    : <<s, a, b>> \in {<<s0, a0, b0>>}})

\* s.replace(/["{}\[\]]/g, "")
StripMarks(s) == SelectSeq(s, LAMBDA c : c \notin {"\"", "{", "}", "[", "]"})

\* the characters of s at the indices of K (counted from 1), in order
Pick(s0, K0) ==
  The({
    [n \in 1..Cardinality(K) |-> s[CHOOSE i \in K : Cardinality({j \in K : j <= i}) = n]]
    : <<s, K>> \in {<<s0, K0>>}})

\* s.replace(/\s+/g, " "): of each run of white space the first character is kept, as a blank
CollapseWs(s0) ==
  The({
    The({[n \in 1..Len(kept) |-> IF kept[n] \in Whitespace THEN " " ELSE kept[n]]
         : kept \in {Pick(s, {i \in 1..Len(s) :
                                s[i] \notin Whitespace \/ i = 1 \/ s[i - 1] \notin Whitespace})}})
    : s \in {s0}})

\* /^\d{4}$/.test(s)
IsYear4(s) == Len(s) = 4 /\ AllDigits(s)

\* the end of the run of characters of the class from index i on
RECURSIVE RunEnd(_, _, _)
RunEnd(s0, i0, class0) ==
  The({
    IF i < Len(s) /\ s[i + 1] \in class THEN RunEnd(s, i + 1, class) ELSE i
    : <<s, i, class>> \in {<<s0, i0, class0>>}})

\* a match of word, characters of the class, four digits at index i: the year and the index
\* after the match
MatchAt(s0, i0, word0, class0) ==
  The({
    IF ~(i + Len(word) <= Len(s) /\ SubSeq(s, i + 1, i + Len(word)) = word) THEN Fail
    ELSE The({IF j + 4 <= Len(s) /\ AllDigits(SubSeq(s, j + 1, j + 4))
              THEN Ok(Num(DigitsVal(SubSeq(s, j + 1, j + 4))), j + 4)
              ELSE Fail
              : j \in {RunEnd(s, i + Len(word), class)}})
    : <<s, i, word, class>> \in {<<s0, i0, word0, class0>>}})

\* the matches among those that start at the indices of at, from index i on, left to right
\* without overlap, each with its index, its year and the index after it
RECURSIVE Leftmost(_, _, _, _, _)
Leftmost(s0, i0, word0, class0, at0) ==
  The({
    IF \A j \in at : j < i THEN <<>>
    ELSE The({<<[index |-> j, year |-> MatchAt(s, j, word, class).v,
                 end |-> MatchAt(s, j, word, class).i]>>
                \o Leftmost(s, MatchAt(s, j, word, class).i, word, class, at)
              : j \in {CHOOSE j \in at : j >= i /\ \A k \in at : k >= i => j <= k}})
    : <<s, i, word, class, at>> \in {<<s0, i0, word0, class0, at0>>}})

\* the matches of the expression from index i on
MatchesFrom(s0, i0, word0, class0) ==
  The({
    Leftmost(s, i, word, class, {j \in 0..(Len(s) - 1) : MatchAt(s, j, word, class).ok})
    : <<s, i, word, class>> \in {<<s0, i0, word0, class0>>}})

\* [...s.matchAll(/Year[:\s]*([0-9]{4})/g)]
YearBlocks(s) == MatchesFrom(s, 0, <<"Y", "e", "a", "r">>, {":"} \cup Whitespace)

\* s.match(/Year:\s*(\d{4})/): the year of the first match, null without a match
YearMarker(s) ==
  The({IF ms = <<>> THEN Null ELSE ms[1].year : ms \in {MatchesFrom(s, 0, <<"Y", "e", "a", "r", ":">>, Whitespace)}})

\* s.replace(/Year[:\s]*([0-9]{4})/g, "")
RemoveBlocks(s0, i0) ==
  The({
    The({Pick(s, {k \in (i + 1)..Len(s) :
                    \A n \in 1..Len(ms) : ~(ms[n].index + i < k /\ k <= ms[n].end + i)})
         : ms \in {YearBlocks(SubSeq(s, i + 1, Len(s)))}})
    : <<s, i>> \in {<<s0, i0>>}})

-----------------------------------------------------------------------------
(* The normalizers of malformed responses: normalizeNewsletters and normalizeJE. *)
(* inputYears is a list of numbers, rawText a text.                              *)

\* the length of the snippet taken after a year marker
SnippetLen == 400

\* typeof it !== "object" || it === null
IsPrimitive(it) == it.t \notin {"object", "array"}

\* items.join(" "): null and undefined elements count as empty
RECURSIVE JoinSpace(_)
JoinSpace(items0) ==
  The({
    IF items = <<>> THEN <<>>
    ELSE The({IF Len(items) = 1 THEN h ELSE h \o <<" ">> \o JoinSpace(Tail(items))
              : h \in {IF Nullish(items[1]) THEN <<>> ELSE StringOf(items[1])}})
    : items \in {items0}})

\* the test for the pattern [year, content, year, content, ...]
isAlternatingYearContent(items) ==
  /\ Len(items) >= 2
  /\ \A i \in 1..Len(items) :
       IF i % 2 = 1
       THEN TypeofNumber(items[i]) \/ (IsStr(items[i]) /\ IsYear4(items[i].v))
       ELSE IsStr(items[i])

\* the entry built from the positions i and i + 1 of an alternating array (i counted from 1)
PairAt(items, i) ==
  LET rawYear == items[i]
      year == IF TypeofNumber(rawYear) THEN rawYear ELSE ToNumber(Str(Trim(StringOf(rawYear))))
      next == IF i + 1 <= Len(items) THEN items[i + 1] ELSE Undef
  IN Obj([year |-> ToNumber(year), content |-> Str(Trim(StringOf(Or(next, Str(<<>>)))))])

\* the positional pairing of an alternating array, stepping by one position instead of two
PairUp_EveryPosition(items) == [k \in 1..Len(items) |-> PairAt(items, k)]

\* the positional pairing of an alternating array
PairUp(items) == [k \in 1..((Len(items) + 1) \div 2) |-> PairAt(items, 2 * k - 1)]

\* the newsletters array of the JSON text embedded in the string el, Undef when el holds none
EmbeddedNewsletters(el) ==
  IF ~IsStr(el) THEN Undef
  ELSE The({IF startsWith(trimmed, <<"{">>) \/ includes(trimmed, <<"\"", "n", "e", "w", "s", "l", "e", "t", "t", "e", "r", "s", "\"">>)
               \/ includes(trimmed, <<"\"", "y", "e", "a", "r", "\"">>)
            THEN The({IF Truthy(candidate) /\ Truthy(Get(candidate, "newsletters"))
                         /\ IsArr(Get(candidate, "newsletters"))
                      THEN Get(candidate, "newsletters")
                      ELSE Undef
                      : candidate \in {safeParseJson(trimmed)}})
            ELSE Undef
            : trimmed \in {Trim(el.v)}})

\* the least index at which the snippet holds one of the input years, -1 without any
NextYearPos(snippet, inputYears) ==
  LET ps == {indexOf(snippet, ToChars(inputYears[k]), 0) : k \in 1..Len(inputYears)} \ {0 - 1}
  IN IF ps = {} THEN 0 - 1 ELSE CHOOSE p \in ps : \A q \in ps : p <= q

\* the content found for inputYears[i] in an array of primitives
PrimitiveContent(joined0, items0, inputYears0, i0) ==
  The({
    The({IF pos # 0 - 1
         THEN The({IF contentToken # 0 - 1
                   THEN The({The({The({Trim(CollapseWs(StripMarks(
                                         IF nextPos # 0 - 1 THEN slice(snippet, 0, nextPos)
                                         ELSE snippet)))
                                       : nextPos \in {NextYearPos(snippet, inputYears)}})
                                  : snippet \in {IF indexOf(after, <<":">>, 0) # 0 - 1
                                                 THEN slice(after, indexOf(after, <<":">>, 0) + 1,
                                                            Len(after))
                                                 ELSE after}})
                             : after \in {slice(joined, contentToken, Len(joined))}})
                   ELSE Trim(StripMarks(slice(joined, pos + Len(ToChars(inputYears[i])),
                                              pos + Len(ToChars(inputYears[i])) + SnippetLen)))
                   : contentToken \in {indexOf(joined, <<"c", "o", "n", "t", "e", "n", "t">>, pos)}})
         ELSE LET el == IF i <= Len(items) THEN items[i] ELSE Undef
              IN IF IsStr(el) THEN el.v ELSE StringOf(Or(el, Str(<<>>)))
         : pos \in {indexOf(joined, ToChars(inputYears[i]), 0)}})
    : <<joined, items, inputYears, i>> \in {<<joined0, items0, inputYears0, i0>>}})

\* the entries built for an array of primitives, one per input year
FromPrimitives(items, inputYears) ==
  The({[i \in 1..Len(inputYears) |->
          Obj([year |-> ToNumber(inputYears[i]),
               content |-> Str(PrimitiveContent(joined, items, inputYears, i))])]
       : joined \in {JoinSpace(items)}})

\* inputYears[idx] || null
YearOrNull(inputYears, i) ==
  IF i <= Len(inputYears) THEN Or(inputYears[i], Null) ELSE Null

\* items.map(...): objects get the year and the content they miss, other items become
\* entries; Throw when String(it) throws
MapItem(it, inputYears, i) ==
  IF Truthy(it) /\ TypeofObject(it)
  THEN LET it1 == IF Nullish(Get(it, "year")) THEN Put(it, "year", YearOrNull(inputYears, i))
                  ELSE it
       IN IF Nullish(Get(it1, "content"))
          THEN IF NotConvertible(it1) THEN Throw
               ELSE Put(it1, "content", Str(StringOf(Or(it1, Str(<<>>)))))
          ELSE it1
  ELSE Obj([year |-> YearOrNull(inputYears, i), content |-> Str(StringOf(Or(it, Str(<<>>))))])

\* the blocks Year:YYYY ... of the raw text, each up to the next one
RawBlocks(rawText0) ==
  The({
    The({[i \in 1..Len(ms) |->
            Obj([year |-> ToNumber(ms[i].year),
                 content |->
                   Str(Trim(CollapseWs(StripMarks(RemoveBlocks(
                     slice(rawText, ms[i].index,
                           IF i < Len(ms) THEN ms[i + 1].index ELSE Len(rawText)), 0)))))])]
         : ms \in {YearBlocks(rawText)}})
    : rawText \in {rawText0}})

\* the strings of the array, trimmed
StringContents(items) ==
  LET strs == SelectSeq(items, LAMBDA it : IsStr(it))
  IN [i \in 1..Len(strs) |-> Trim(strs[i].v)]

\* the part of normalizeNewsletters that follows the alternating pattern
AfterAlternating(parsed0, rawText0, inputYears0) ==
  The({
    LET items == Get(parsed, "newsletters").v
        embedded == {i \in 1..Len(items) : EmbeddedNewsletters(items[i]) # Undef}
    IN IF embedded # {}
       THEN Put(parsed, "newsletters",
                EmbeddedNewsletters(items[CHOOSE i \in embedded : \A j \in embedded : i <= j]))
       ELSE IF \A i \in 1..Len(items) : IsPrimitive(items[i])
       THEN Put(parsed, "newsletters", Arr(FromPrimitives(items, inputYears)))
       ELSE The({IF \E i \in 1..Len(mapped) : mapped[i] = Throw THEN Throw
                 ELSE IF \E i \in 1..Len(mapped) : Nullish(Get(mapped[i], "year"))
                 THEN The({IF blocks # <<>> THEN Put(parsed, "newsletters", Arr(blocks))
                           ELSE The({IF Len(strs) >= Len(inputYears)
                                     THEN Put(parsed, "newsletters",
                                              Arr([i \in 1..Len(inputYears) |->
                                                     Obj([year |-> ToNumber(inputYears[i]),
                                                          content |-> Or(Str(strs[i]), Str(<<>>))])]))
                                     ELSE Put(parsed, "newsletters", Arr(mapped))
                                     : strs \in {StringContents(items)}})
                           : blocks \in {RawBlocks(rawText)}})
                 ELSE Put(parsed, "newsletters", Arr(mapped))
                 : mapped \in {[i \in 1..Len(items) |-> MapItem(items[i], inputYears, i)]}})
    : <<parsed, rawText, inputYears>> \in {<<parsed0, rawText0, inputYears0>>}})

\* normalizeNewsletters(parsed, rawText, inputYears).  The branch for an array of numbers
\* only is left out: such an array is an array of primitives and has returned before it.
normalizeNewsletters(parsed, rawText, inputYears) ==
  IF ~Truthy(parsed) THEN ensureYearMonths(parsed)
  ELSE IF ~Truthy(Get(parsed, "newsletters")) THEN parsed
  ELSE IF ~IsArr(Get(parsed, "newsletters")) THEN parsed
  ELSE IF isAlternatingYearContent(Get(parsed, "newsletters").v)
  THEN Put(parsed, "newsletters", Arr(PairUp(Get(parsed, "newsletters").v)))
  ELSE AfterAlternating(parsed, rawText, inputYears)

\* the entry made of one element of entries_by_year or all_years_data
YearStub(s) ==
  IF IsStr(s) THEN Obj([year |-> YearMarker(s.v), months |-> Arr(<<>>)])
  ELSE IF NotConvertible(s) THEN Throw
  ELSE Obj([year |-> Or(ToNumber(s), Null), months |-> Arr(<<>>)])

\* parsed.years synthesised from the list under the key k
StubYears(parsed, k) ==
  LET src == Get(parsed, k).v
      stubs == [i \in 1..Len(src) |-> YearStub(src[i])]
  IN IF \E i \in 1..Len(stubs) : stubs[i] = Throw THEN Throw
     ELSE Put(parsed, "years", Arr(stubs))

\* { year: Number(y), months: [] }
EmptyYear(y) == Obj([year |-> ToNumber(y), months |-> Arr(<<>>)])

\* the bounds between which a number counts as a year
YearAfter == 1900
YearBefore == 2100

\* the elements of a list of primitives that look like years
LooksLikeYears(items) ==
  LET looks(it) == \/ IsNum(it) /\ it.v > YearAfter /\ it.v < YearBefore
                   \/ IsStr(it) /\ IsYear4(Trim(it.v))
      kept == SelectSeq(items, looks)
  IN [i \in 1..Len(kept) |->
        EmptyYear(IF IsStr(kept[i]) THEN Str(Trim(kept[i].v)) ELSE kept[i])]

\* the part of normalizeJE that follows the synthesis of parsed.years
FromYearList(parsed0, inputYears0) ==
  The({
    LET items == Get(parsed, "years").v
        first == IF items = <<>> THEN Undef ELSE items[1]
    IN IF Truthy(first) /\ TypeofObject(first) THEN ensureYearMonths(parsed)
       ELSE IF NotConvertible(Arr(items)) THEN Throw
       ELSE The({
              The({The({ensureYearMonths(Put(parsed, "years",
                          Arr(IF found # <<>> THEN found
                              ELSE IF looked # <<>> THEN looked
                              ELSE [i \in 1..Len(inputYears) |-> EmptyYear(inputYears[i])])))
                        : looked \in {LooksLikeYears(items)}})
                   : found \in {[i \in 1..Len(hits) |-> EmptyYear(hits[i])]}})
              : hits \in {SelectSeq(inputYears,
                            LAMBDA y : \/ indexOf(JoinSpace(items), ToChars(y), 0) # 0 - 1
                                       \/ indexOf(StringOf(Arr(items)), ToChars(y), 0) # 0 - 1)}})
    : <<parsed, inputYears>> \in {<<parsed0, inputYears0>>}})

\* the list under the key k is an array with elements
HasList(parsed, k) == IsArr(Get(parsed, k)) /\ Get(parsed, k).v # <<>>

\* normalizeJE(parsed, rawText, inputYears)
normalizeJE(parsed, rawText, inputYears) ==
  IF ~Truthy(parsed) THEN parsed
  ELSE IF IsArr(Get(parsed, "years")) THEN FromYearList(parsed, inputYears)
  ELSE IF HasList(parsed, "entries_by_year") \/ HasList(parsed, "all_years_data")
  THEN The({IF stubbed = Throw THEN Throw ELSE FromYearList(stubbed, inputYears)
            : stubbed \in {StubYears(parsed, IF HasList(parsed, "entries_by_year")
                                             THEN "entries_by_year" ELSE "all_years_data")}})
  ELSE ensureYearMonths(parsed)


-----------------------------------------------------------------------------
(* The normalizers as a machine: one call of one of the three functions on a value the *)
(* extractor returned.                                                                  *)

\* the longest newsletters, years and months list enumerated in full
NormLen == 2

\* an object whose own toString property hides Object.prototype.toString
Opaque == Obj([toString |-> Num(1)])

\* what the model may put in the newsletters array
NewsletterEntries ==
  {Null, Num(2020), Num(7), Str(<<"2", "0", "2", "1">>), Str(<<"t", "e", "x", "t", " ", "A">>), Str(<<" ", "b", " ">>),
   Obj([year |-> Num(2020), content |-> Str(<<"a">>)]), Obj([content |-> Str(<<"a">>)]),
   Obj([year |-> Num(2021)]), Arr(<<Num(1)>>), Opaque,
   Str(Stringify(Obj([newsletters |-> Arr(<<Obj([year |-> Num(2020), content |-> Str(<<"a">>)])>>)])))}

\* arrays of four elements with years at the even and strings at the odd positions
AlternatingLists ==
  {<<y1, c1, y2, c2>> : y1 \in {Num(2020), Str(<<"2", "0", "2", "0">>)}, y2 \in {Num(2021), Str(<<"2", "0", "2", "1">>)},
                        c1 \in {Str(<<"t", "e", "x", "t", " ", "A">>), Str(<<" ", "a", " ">>)}, c2 \in {Str(<<"t", "e", "x", "t", " ", "B">>), Str(<<>>)}}

\* what the model may put in the years array, in entries_by_year and in all_years_data
YearListEntries ==
  {Null, Num(2020), Num(7), Str(<<"2", "0", "2", "1">>), Str(<<" ", "2", "0", "2", "0", " ">>), Str(<<"Y", "e", "a", "r", ":", " ", "2", "0", "2", "0", " ", "s", "a", "l", "e", "s">>), Str(<<"x">>),
   Obj([year |-> Num(2020)]), Obj([year |-> Num(2020), months |-> Arr(<<Null, Opaque>>)]),
   Arr(<<Num(2020)>>), Opaque}

\* the lists of at most NormLen of the given entries
ListsOf(entries) == UNION {[1..n -> entries] : n \in 0..NormLen}

\* values that are no objects with a list, as the extractor returns them for other texts
OtherParsed ==
  {Null, Num(5), Num(0), Str(<<"x">>), Bool(TRUE), Arr(<<>>), Arr(<<Num(1)>>), EmptyObj,
   Obj([newsletters |-> Str(<<"x">>)]), Obj([newsletters |-> Null]), Obj([years |-> Str(<<"x">>)])}

\* the raw texts of the response
RawTexts == {<<>>, <<"x">>, <<"Y", "e", "a", "r", ":", "2", "0", "2", "0", " ", "a", " ", "[", "b", "]", " ", "Y", "e", "a", "r", " ", "2", "0", "2", "1", " ", "c">>}

\* the lists of expected years
ExpectedYears == {<<>>, <<Num(2020)>>, <<Num(2020), Num(2021)>>}

\* the values handed to normalizeNewsletters
NewsletterInputs ==
  OtherParsed
  \cup {Obj([newsletters |-> Arr(items)]) : items \in ListsOf(NewsletterEntries) \cup AlternatingLists}

\* the values handed to normalizeJE
JEInputs ==
  OtherParsed
  \cup {Obj([years |-> Arr(items)]) : items \in ListsOf(YearListEntries)}
  \cup {Obj((k :> Arr(items))) : k \in {"entries_by_year", "all_years_data"},
                                 items \in ListsOf(YearListEntries)}
  \cup {Obj([entries_by_year |-> Arr(<<>>), all_years_data |-> Arr(<<Num(2021)>>)])}

\* the values handed to ensureYearMonths
MonthsInputs ==
  OtherParsed
  \cup {Obj([years |-> Arr(items)]) : items \in ListsOf(YearListEntries)}
  \cup {Obj([years |-> Arr(<<Obj([year |-> Num(2020)])>>), months |-> Arr(ms)]) :
          ms \in ListsOf({Null, Num(4), Str(<<"Q", "1">>), EmptyObj, Arr(<<Num(1)>>), Opaque})}

InitNorm ==
  /\ \/ nFn = "normalizeNewsletters" /\ nIn \in NewsletterInputs
     \/ nFn = "normalizeJE" /\ nIn \in JEInputs
     \/ nFn = "ensureYearMonths" /\ nIn \in MonthsInputs
  /\ nRaw \in RawTexts
  /\ nYears \in ExpectedYears
  /\ nRet = Pending
  /\ npc = "ready"
  /\ IdleRecon /\ IdleParse /\ IdleMonths /\ IdleBulk

\* the end of a call: the value returned, or the error thrown
Settle(r) ==
  /\ nRet' = r
  /\ npc' = IF r = Throw THEN "threw" ELSE "returned"
  /\ UNCHANGED <<nFn, nIn, nRaw, nYears, reconVars, parseVars, monthVars, bulkVars, batchVars>>

\* normalizeNewsletters(parsed, rawText, inputYears)
NormalizeNewsletters ==
  /\ npc = "ready" /\ nFn = "normalizeNewsletters"
  /\ \E r \in {normalizeNewsletters(nIn, nRaw, nYears)} : Settle(r)

\* normalizeJE(parsed, rawText, inputYears)
NormalizeJE ==
  /\ npc = "ready" /\ nFn = "normalizeJE"
  /\ \E r \in {normalizeJE(nIn, nRaw, nYears)} : Settle(r)

\* ensureYearMonths(parsed)
EnsureYearMonths ==
  /\ npc = "ready" /\ nFn = "ensureYearMonths"
  /\ \E r \in {ensureYearMonths(nIn)} : Settle(r)

NextNorm == NormalizeNewsletters \/ NormalizeJE \/ EnsureYearMonths

SpecNorm == InitNorm /\ [][NextNorm]_vars

-----------------------------------------------------------------------------
(* Documents.  Japanese text of the program is written in ASCII: the month     *)
(* titles as 4M ... 3M, the journal title "JE <year> FY", the newsletter title *)
(* "NL <year>", the failure marker " (FAILED)", and so on.                     *)

\* a * b on numbers
Times(a, b) ==
  LET x == ToNumber(a)
      y == ToNumber(b)
  IN IF IsNum(x) /\ IsNum(y) THEN Num(x.v * y.v) ELSE NaN

\* Math.round(a / n) for a positive integer n
RoundDiv(a, n) == IF IsNum(a) THEN Num((2 * a.v + n) \div (2 * n)) ELSE NaN

\* the program constants
DefaultChunkYears == 10
ChunkDelayMs == 1500
FallbackDelayMs == 200

\* DocumentType
LocalTypes == {"BS", "PL", "CF"}
BulkTypes == {"JE", "NEWSLETTER"}
TypeChars(t) ==
  CASE t = "BS" -> <<"B", "S">> [] t = "PL" -> <<"P", "L">> [] t = "CF" -> <<"C", "F">> [] t = "JE" -> <<"J", "E">>
    [] OTHER -> <<"N", "E", "W", "S", "L", "E", "T", "T", "E", "R">>

\* DOC_TYPE_LABELS[t]
DocTypeLabel(t) == Str(TypeChars(t) \o <<" ", "l", "a", "b", "e", "l">>)

\* a GeneratedDocument
Doc(id, t, year, title, content) ==
  Obj([id |-> Str(id), type |-> Str(TypeChars(t)), year |-> year, title |-> Str(title),
       content |-> content])

\* the table headers of a journal section
JEHeaders ==
  Arr(<<Str(<<"d", "a", "t", "e">>), Str(<<"d", "e", "b", "i", "t">>), Str(<<"a", "m", "o", "u", "n", "t">>), Str(<<"c", "r", "e", "d", "i", "t">>), Str(<<"a", "m", "o", "u", "n", "t">>),
        Str(<<"s", "u", "m", "m", "a", "r", "y">>)>>)

monthNames ==
  << <<"4", "M">>, <<"5", "M">>, <<"6", "M">>, <<"7", "M">>, <<"8", "M">>, <<"9", "M">>, <<"1", "0", "M">>, <<"1", "1", "M">>, <<"1", "2", "M">>, <<"1", "M">>, <<"2", "M">>, <<"3", "M">> >>

\* a variant whose receivable line carries no amount
generateFallbackJESections_OneSided(yearData) ==
  LET monthlyRevenue ==
        RoundDiv(Times(Or(Get(yearData, "revenue"), Num(100)), Num(1000000)), 12)
  IN Arr([i \in 1..Len(monthNames) |->
            Obj([title |-> Str(monthNames[i]), breakPage |-> Bool(FALSE), headers |-> JEHeaders,
                 items |-> Arr(<<
                   Obj([date |-> Str(<<"m", "o", "n", "t", "h", " ", "e", "n", "d">>), account |-> Str(<<"r", "e", "c", "e", "i", "v", "a", "b", "l", "e">>),
                        debit |-> Num(0), credit |-> Num(0),
                        label |-> Str(<<"m", "o", "n", "t", "h", "l", "y", " ", "s", "a", "l", "e", "s">>)]),
                   Obj([date |-> Str(<<"m", "o", "n", "t", "h", " ", "e", "n", "d">>), account |-> Str(<<"s", "a", "l", "e", "s">>),
                        debit |-> Num(0), credit |-> monthlyRevenue,
                        label |-> Str(<<"m", "o", "n", "t", "h", "l", "y", " ", "s", "a", "l", "e", "s", " ", "b", "o", "o", "k", "e", "d">>)])>>)])])

\* generateFallbackJESections(yearData): twelve months, each with a receivable debit and a
\* sales credit of a twelfth of the year's revenue
generateFallbackJESections(yearData) ==
  LET monthlyRevenue ==
        RoundDiv(Times(Or(Get(yearData, "revenue"), Num(100)), Num(1000000)), 12)
  IN Arr([i \in 1..Len(monthNames) |->
            Obj([title |-> Str(monthNames[i]), breakPage |-> Bool(FALSE), headers |-> JEHeaders,
                 items |-> Arr(<<
                   Obj([date |-> Str(<<"m", "o", "n", "t", "h", " ", "e", "n", "d">>), account |-> Str(<<"r", "e", "c", "e", "i", "v", "a", "b", "l", "e">>),
                        debit |-> monthlyRevenue, credit |-> Num(0),
                        label |-> Str(<<"m", "o", "n", "t", "h", "l", "y", " ", "s", "a", "l", "e", "s">>)]),
                   Obj([date |-> Str(<<"m", "o", "n", "t", "h", " ", "e", "n", "d">>), account |-> Str(<<"s", "a", "l", "e", "s">>),
                        debit |-> Num(0), credit |-> monthlyRevenue,
                        label |-> Str(<<"m", "o", "n", "t", "h", "l", "y", " ", "s", "a", "l", "e", "s", " ", "b", "o", "o", "k", "e", "d">>)])>>)])])

FailureMark == <<" ", "(", "F", "A", "I", "L", "E", "D", ")">>

JETitle(year) == <<"J", "E", " ">> \o StringOf(year) \o <<" ", "F", "Y">>

NLTitle(year) == <<"N", "L", " ">> \o StringOf(year)

\* the placeholder document of one year of a failed chunk
Placeholder(t, y) ==
  IF t = "JE"
  THEN Doc(<<"J", "E", "-">> \o StringOf(Get(y, "year")), "JE", Get(y, "year"),
           JETitle(Get(y, "year")) \o FailureMark,
           Obj([sections |-> generateFallbackJESections(y)]))
  ELSE Doc(<<"N", "E", "W", "S", "L", "E", "T", "T", "E", "R", "-">> \o StringOf(Get(y, "year")), "NEWSLETTER", Get(y, "year"),
           NLTitle(Get(y, "year")) \o FailureMark,
           Str(StringOf(Get(y, "year")) \o <<" ", "n", "e", "w", "s", "l", "e", "t", "t", "e", "r", " ", "g", "e", "n", "e", "r", "a", "t", "i", "o", "n", " ", "f", "a", "i", "l", "e", "d">>))

Placeholders(t, chunk) == [i \in 1..Len(chunk) |-> Placeholder(t, chunk[i])]

\* one journal line of a response, as the bulk generator copies it
JEItem(it) ==
  Obj([date |-> Or(Get(it, "date"), Str(<<>>)), account |-> Or(Get(it, "account"), Str(<<>>)),
       debit |-> Or(ToNumber(Get(it, "debit")), Num(0)),
       credit |-> Or(ToNumber(Get(it, "credit")), Num(0)),
       label |-> Or(Get(it, "label"), Str(<<>>))])

\* (m.items || []).map(...) of one month: Throw when m is null, when items is truthy and no
\* array, or when a line is null
JESection(m) ==
  IF Nullish(m) THEN Throw
  ELSE LET its == Or(Get(m, "items"), Arr(<<>>)) IN
       IF ~IsArr(its) \/ \E i \in 1..Len(its.v) : Nullish(its.v[i]) THEN Throw
       ELSE Obj([title |-> Or(Get(m, "title"), Str(<<>>)), breakPage |-> Bool(FALSE),
                 headers |-> JEHeaders,
                 items |-> Arr([i \in 1..Len(its.v) |-> JEItem(its.v[i])])])

\* the documents pushed while walking parsed.years from entry i on, and whether the walk threw
RECURSIVE WalkYears(_, _, _)
WalkYears(ys0, i0, acc0) ==
  The({
    IF i > Len(ys) THEN [docs |-> acc, threw |-> FALSE]
    ELSE LET y == ys[i] IN
         IF Nullish(y) THEN [docs |-> acc, threw |-> TRUE]
         ELSE IF ~Truthy(Get(y, "year")) \/ ~IsArr(Get(y, "months")) THEN WalkYears(ys, i + 1, acc)
         ELSE The({IF \E j \in 1..Len(sections) : sections[j] = Throw
                   THEN [docs |-> acc, threw |-> TRUE]
                   ELSE WalkYears(ys, i + 1,
                          Append(acc, Doc(<<"J", "E", "-">> \o StringOf(Get(y, "year")), "JE",
                                          Get(y, "year"), JETitle(Get(y, "year")),
                                          Obj([sections |-> Arr(sections)]))))
                   : sections \in {[j \in 1..Len(Get(y, "months").v) |->
                                      JESection(Get(y, "months").v[j])]}})
    : <<ys, i, acc>> \in {<<ys0, i0, acc0>>}})

\* the same walk over parsed.newsletters
RECURSIVE WalkNewsletters(_, _, _)
WalkNewsletters(ns0, i0, acc0) ==
  The({
    IF i > Len(ns) THEN [docs |-> acc, threw |-> FALSE]
    ELSE LET n == ns[i] IN
         IF Nullish(n) THEN [docs |-> acc, threw |-> TRUE]
         ELSE IF ~Truthy(Get(n, "year")) \/ ~Truthy(Get(n, "content")) THEN WalkNewsletters(ns, i + 1, acc)
         ELSE WalkNewsletters(ns, i + 1,
                Append(acc, Doc(<<"N", "E", "W", "S", "L", "E", "T", "T", "E", "R", "-">> \o StringOf(Get(n, "year")), "NEWSLETTER",
                                Get(n, "year"), NLTitle(Get(n, "year")), Get(n, "content"))))
    : <<ns, i, acc>> \in {<<ns0, i0, acc0>>}})

\* a response of the LLM: the request rejected, or a text
Rejected == [rejected |-> TRUE, text |-> <<>>]
Text(s) == [rejected |-> FALSE, text |-> s]

\* parsed = JSON.parse(response.text?.trim() || "{}"), safeParseJson(response.text || "") if
\* that throws
ParseResponse(text0) ==
  The({
    The({IF direct # Throw THEN direct ELSE safeParseJson(text)
         : direct \in {JsonParse(IF Trim(text) = <<>> THEN <<"{", "}">> ELSE Trim(text))}})
    : text \in {text0}})

\* String(err) of what the catch block of a chunk catches: the rejection of the request, the
\* error thrown for a response without the list, or the TypeError of the validation loop
RequestError == <<"E", "r", "r", "o", "r", ":", " ", "r", "e", "q", "u", "e", "s", "t", " ", "f", "a", "i", "l", "e", "d">>
StructureError(t) ==
  <<"E", "r", "r", "o", "r", ":", " ", "I", "n", "v", "a", "l", "i", "d", " ", "r", "e", "s", "p", "o", "n", "s", "e", " ", "s", "t", "r", "u", "c", "t", "u", "r", "e", ":", " ", "m", "i", "s", "s", "i", "n", "g", " ">>
    \o (IF t = "JE" THEN <<"y", "e", "a", "r", "s">> ELSE <<"n", "e", "w", "s", "l", "e", "t", "t", "e", "r", "s">>)
    \o <<" ", "a", "r", "r", "a", "y">>
ValidationError == <<"T", "y", "p", "e", "E", "r", "r", "o", "r", ":", " ", "C", "a", "n", "n", "o", "t", " ", "r", "e", "a", "d", " ", "p", "r", "o", "p", "e", "r", "t", "i", "e", "s", " ", "o", "f", " ", "n", "u", "l", "l">>

\* the body of the loop of generateBulkDocuments for one chunk: the documents pushed to results,
\* whether the catch block ran (which adds one placeholder per year of the chunk), and the
\* error string it caught
ProcessChunk(t0, chunk0, resp0) ==
  The({
    IF resp.rejected
    THEN [docs |-> Placeholders(t, chunk), failed |-> TRUE, err |-> RequestError]
    ELSE The({IF Truthy(list) /\ IsArr(list)
              THEN The({IF w.threw
                        THEN [docs |-> w.docs \o Placeholders(t, chunk), failed |-> TRUE,
                              err |-> ValidationError]
                        ELSE [docs |-> w.docs, failed |-> FALSE, err |-> <<>>]
                        : w \in {IF t = "JE" THEN WalkYears(list.v, 1, <<>>)
                                 ELSE WalkNewsletters(list.v, 1, <<>>)}})
              ELSE [docs |-> Placeholders(t, chunk), failed |-> TRUE, err |-> StructureError(t)]
              : list \in {Get(ParseResponse(resp.text), IF t = "JE" THEN "years" ELSE "newsletters")}})
    : <<t, chunk, resp>> \in {<<t0, chunk0, resp0>>}})

\* saveDebugResponse(requestId, text): the entry of the debug store, the request id being
\* the type and the chunk (the time stamps of the id and of the file name are left out)
saveDebugResponse(requestId, text) == requestId \o <<Str(text)>>

\* the loop of chunkArray(arr, size) never ends: i starts at 0 below arr.length and a
\* negative size only lowers it
Endless(arr, size) == arr # <<>> /\ size.num < 0

\* chunkArray(arr, size) for a size num/den with which the loop ends: it pushes
\* arr.slice(i, i + size), whose bounds are truncated to integers, and adds size to i while
\* i < arr.length
chunkArray(arr0, size0) ==
  The({
    IF arr = <<>> THEN <<>>
    ELSE LET steps == (Len(arr) * size.den + size.num - 1) \div size.num
             upto(k) == IF (k * size.num) \div size.den < Len(arr)
                        THEN (k * size.num) \div size.den ELSE Len(arr)
         IN [k \in 1..steps |-> SubSeq(arr, ((k - 1) * size.num) \div size.den + 1, upto(k))]
    : <<arr, size>> \in {<<arr0, size0>>}})

RECURSIVE Pow10(_)
Pow10(n) == IF n = 0 THEN 1 ELSE 10 * Pow10(n - 1)

\* Number(s) for the text of the chunk-size setting, as the quotient num/den: blank is 0, a
\* signed decimal number is its value, anything else NaN
Decimal(s0) ==
  The({
    LET body == IF t # <<>> /\ Head(t) \in {"-", "+"} THEN Tail(t) ELSE t
        dot == indexOf(body, <<".">>, 0)
        whole == IF dot = 0 - 1 THEN body ELSE SubSeq(body, 1, dot)
        frac == IF dot = 0 - 1 THEN <<>> ELSE SubSeq(body, dot + 2, Len(body))
        digits(x) == \A i \in 1..Len(x) : x[i] \in DigitSet
        abs == DigitsVal(whole) * Pow10(Len(frac)) + DigitsVal(frac)
    IN IF t = <<>> THEN [num |-> 0, den |-> 1]
       ELSE IF (whole = <<>> /\ frac = <<>>) \/ ~digits(whole) \/ ~digits(frac) THEN NaN
       ELSE [num |-> IF Head(t) = "-" THEN 0 - abs ELSE abs, den |-> Pow10(Len(frac))]
    : t \in {Trim(s0)}})

\* CHUNK_YEARS = Number(_envChunk ?? 10) || 10, as the quotient num/den
ChunkYears(envChunk) ==
  LET n == IF Nullish(envChunk) THEN [num |-> DefaultChunkYears, den |-> 1]
           ELSE Decimal(envChunk.v)
  IN IF n = NaN \/ n.num = 0 THEN [num |-> DefaultChunkYears, den |-> 1] ELSE n

-----------------------------------------------------------------------------
(* The chunked bulk generator generateBulkDocuments and the batch controller *)
(* batchGenerateDocuments                                                    *)

\* bound: the number of years of the history
MaxHist == 3

\* a complete financials block, as the type DetailedFinancials requires it
SampleFinancials ==
  Override(BaseFinancials,
           [sales |-> Num(100), cogs |-> Num(50), grossProfit |-> Num(50),
            operatingProfit |-> Num(50), ordinaryProfit |-> Num(50), preTaxProfit |-> Num(50),
            netProfit |-> Num(50), totalAssets |-> Num(100), totalNetAssets |-> Num(100),
            currentAssets |-> Put(Get(BaseFinancials, "currentAssets"), "cash", Num(100)),
            netAssets |-> Obj([capitalStock |-> Num(50), retainedEarnings |-> Num(50),
                               other |-> Num(0)]),
            operatingCF |-> Num(50), cashAtEnd |-> Num(50)])

\* a history of n consecutive years from 2020 on, each with the revenue rev; the years whose
\* index is in lacking have no financials block
History(n, rev, lacking) ==
  [i \in 1..n |->
     Compact([year |-> Num(2019 + i), revenue |-> rev,
              financials |-> IF i \in lacking THEN Undef ELSE SampleFinancials])]

\* how the LLM may answer the request of a chunk
ResponseKinds ==
  {"reject", "good", "prose", "wrapped", "empty", "truncated", "hollow", "partial", "flat",
   "typed", "stray"}

ListKey(t) == IF t = "JE" THEN "years" ELSE "newsletters"

\* a well-formed entry for the year y
GoodEntry(t, y) ==
  IF t = "JE"
  THEN Obj([year |-> Get(y, "year"),
            months |-> Arr(<<Obj([title |-> Str(<<"4", "M">>),
                                  items |-> Arr(<<Obj([debit |-> Num(5)])>>)])>>)])
  ELSE Obj([year |-> Get(y, "year"), content |-> Str(<<"x">>)])

\* the response body that lists the given entries
Body(t, entries) == Obj((ListKey(t) :> Arr(entries)))

GoodText(t, chunk) == Stringify(Body(t, [i \in 1..Len(chunk) |-> GoodEntry(t, chunk[i])]))

\* the content of the i-th newsletter of a flattened list
FlatContents == <<<<"t", "e", "x", "t", " ", "A">>, <<"t", "e", "x", "t", " ", "B">>, <<"t", "e", "x", "t", " ", "C">>, <<"t", "e", "x", "t", " ", "D">>>>

\* a list that alternates between a year and its content (JE: the years alone)
FlatList(t, chunk) ==
  IF t = "JE" THEN [i \in 1..Len(chunk) |-> Get(chunk[i], "year")]
  ELSE [i \in 1..(2 * Len(chunk)) |->
          IF i % 2 = 1 THEN Get(chunk[(i + 1) \div 2], "year") ELSE Str(FlatContents[i \div 2])]

\* an entry for the year y whose content is a number (JE: whose month title is a number)
TypedEntry(t, y) ==
  IF t = "JE"
  THEN Obj([year |-> Get(y, "year"),
            months |-> Arr(<<Obj([title |-> Num(4),
                                  items |-> Arr(<<Obj([debit |-> Num(5)])>>)])>>)])
  ELSE Obj([year |-> Get(y, "year"), content |-> Num(7)])

\* a year no chunk holds
StrayYear == Obj([year |-> Num(1999)])

\* the response of each kind to the request of a chunk: a rejected request, a well-formed
\* body, prose, a well-formed body inside prose, an empty text, a body cut short, a body
\* with an empty list, a body whose second entry is null, a flattened list, a body whose
\* contents are numbers, a body that lists the first year twice and a year outside the chunk
ResponseOf(kind, t, chunk) ==
  CASE kind = "reject" -> Rejected
    [] kind = "good" -> Text(GoodText(t, chunk))
    [] kind = "prose" -> Text(Prose)
    [] kind = "wrapped" -> Text(Prose \o GoodText(t, chunk) \o Prose)
    [] kind = "empty" -> Text(<<>>)
    [] kind = "truncated" -> Text(SubSeq(GoodText(t, chunk), 1, Len(GoodText(t, chunk)) - 1))
    [] kind = "hollow" -> Text(Stringify(Body(t, <<>>)))
    [] kind = "flat" -> Text(Stringify(Body(t, FlatList(t, chunk))))
    [] kind = "typed" ->
         Text(Stringify(Body(t, [i \in 1..Len(chunk) |-> TypedEntry(t, chunk[i])])))
    [] kind = "stray" ->
         Text(Stringify(Body(t, <<GoodEntry(t, chunk[1]), GoodEntry(t, chunk[1]),
                                  GoodEntry(t, StrayYear)>>)))
    [] OTHER -> Text(Stringify(Body(t, <<GoodEntry(t, chunk[1]), Null>>)))

\* one line of a financial table (isTotal and indent, which steer the layout, are left out)
Item(label, value) == Obj([label |-> Str(label), value |-> value])

\* Object.values(g).reduce((a, b) => a + b, 0)
RECURSIVE RawSumOver(_, _)
RawSumOver(r, ks) ==
  IF ks = {} THEN Num(0)
  ELSE The({The({Plus(rest, r[k]) : rest \in {RawSumOver(r, ks \ {k})}})
            : k \in {CHOOSE x \in ks : TRUE}})

RawSum(g) == RawSumOver(g.v, DOMAIN g.v)

BSSections(f) ==
  LET ca == Get(f, "currentAssets")
      fa == Get(f, "fixedAssets")
      cl == Get(f, "currentLiabilities")
      fl == Get(f, "fixedLiabilities")
      na == Get(f, "netAssets")
  IN <<Obj([title |-> Str(<<"a", "s", "s", "e", "t", "s">>),
            items |-> Arr(<<Item(<<"c", "u", "r", "r", "e", "n", "t", " ", "a", "s", "s", "e", "t", "s">>, Str(<<>>)),
                            Item(<<"c", "a", "s", "h">>, Get(ca, "cash")),
                            Item(<<"n", "o", "t", "e", "s", " ", "r", "e", "c", "e", "i", "v", "a", "b", "l", "e">>, Get(ca, "notesReceivable")),
                            Item(<<"a", "c", "c", "o", "u", "n", "t", "s", " ", "r", "e", "c", "e", "i", "v", "a", "b", "l", "e">>, Get(ca, "accountsReceivable")),
                            Item(<<"i", "n", "v", "e", "n", "t", "o", "r", "y">>, Get(ca, "inventory")),
                            Item(<<"o", "t", "h", "e", "r">>, Get(ca, "other")),
                            Item(<<"c", "u", "r", "r", "e", "n", "t", " ", "a", "s", "s", "e", "t", "s", " ", "t", "o", "t", "a", "l">>, RawSum(ca)),
                            Item(<<"f", "i", "x", "e", "d", " ", "a", "s", "s", "e", "t", "s">>, Str(<<>>)),
                            Item(<<"t", "a", "n", "g", "i", "b", "l", "e">>, Get(fa, "tangible")),
                            Item(<<"i", "n", "t", "a", "n", "g", "i", "b", "l", "e">>, Get(fa, "intangible")),
                            Item(<<"i", "n", "v", "e", "s", "t", "m", "e", "n", "t", "s">>, Get(fa, "investments")),
                            Item(<<"f", "i", "x", "e", "d", " ", "a", "s", "s", "e", "t", "s", " ", "t", "o", "t", "a", "l">>, RawSum(fa)),
                            Item(<<"a", "s", "s", "e", "t", "s", " ", "t", "o", "t", "a", "l">>, Get(f, "totalAssets"))>>)]),
       Obj([title |-> Str(<<"l", "i", "a", "b", "i", "l", "i", "t", "i", "e", "s">>),
            items |-> Arr(<<Item(<<"c", "u", "r", "r", "e", "n", "t", " ", "l", "i", "a", "b", "i", "l", "i", "t", "i", "e", "s">>, Str(<<>>)),
                            Item(<<"n", "o", "t", "e", "s", " ", "p", "a", "y", "a", "b", "l", "e">>, Get(cl, "notesPayable")),
                            Item(<<"a", "c", "c", "o", "u", "n", "t", "s", " ", "p", "a", "y", "a", "b", "l", "e">>, Get(cl, "accountsPayable")),
                            Item(<<"s", "h", "o", "r", "t", "-", "t", "e", "r", "m", " ", "d", "e", "b", "t">>, Get(cl, "shortTermDebt")),
                            Item(<<"o", "t", "h", "e", "r">>, Get(cl, "other")),
                            Item(<<"c", "u", "r", "r", "e", "n", "t", " ", "l", "i", "a", "b", "i", "l", "i", "t", "i", "e", "s", " ", "t", "o", "t", "a", "l">>,
                                 Minus(Get(f, "totalLiabilities"), RawSum(fl))),
                            Item(<<"f", "i", "x", "e", "d", " ", "l", "i", "a", "b", "i", "l", "i", "t", "i", "e", "s">>, Str(<<>>)),
                            Item(<<"l", "o", "n", "g", "-", "t", "e", "r", "m", " ", "d", "e", "b", "t">>, Get(fl, "longTermDebt")),
                            Item(<<"o", "t", "h", "e", "r">>, Get(fl, "other")),
                            Item(<<"f", "i", "x", "e", "d", " ", "l", "i", "a", "b", "i", "l", "i", "t", "i", "e", "s", " ", "t", "o", "t", "a", "l">>, RawSum(fl)),
                            Item(<<"l", "i", "a", "b", "i", "l", "i", "t", "i", "e", "s", " ", "t", "o", "t", "a", "l">>, Get(f, "totalLiabilities"))>>)]),
       Obj([title |-> Str(<<"n", "e", "t", " ", "a", "s", "s", "e", "t", "s">>),
            items |-> Arr(<<Item(<<"s", "h", "a", "r", "e", "h", "o", "l", "d", "e", "r", "s", " ", "e", "q", "u", "i", "t", "y">>, Str(<<>>)),
                            Item(<<"c", "a", "p", "i", "t", "a", "l", " ", "s", "t", "o", "c", "k">>, Get(na, "capitalStock")),
                            Item(<<"r", "e", "t", "a", "i", "n", "e", "d", " ", "e", "a", "r", "n", "i", "n", "g", "s">>, Get(na, "retainedEarnings")),
                            Item(<<"n", "e", "t", " ", "a", "s", "s", "e", "t", "s", " ", "t", "o", "t", "a", "l">>, Get(f, "totalNetAssets")),
                            Item(<<"l", "i", "a", "b", "i", "l", "i", "t", "i", "e", "s", " ", "a", "n", "d", " ", "n", "e", "t", " ", "a", "s", "s", "e", "t", "s", " ", "t", "o", "t", "a", "l">>,
                                 Plus(Get(f, "totalLiabilities"), Get(f, "totalNetAssets")))>>)])>>

PLSections(f) ==
  <<Obj([title |-> Str(<<"p", "r", "o", "f", "i", "t", " ", "a", "n", "d", " ", "l", "o", "s", "s">>),
         items |-> Arr(<<Item(<<"s", "a", "l", "e", "s">>, Get(f, "sales")),
                         Item(<<"c", "o", "s", "t", " ", "o", "f", " ", "s", "a", "l", "e", "s">>, Get(f, "cogs")),
                         Item(<<"g", "r", "o", "s", "s", " ", "p", "r", "o", "f", "i", "t">>, Get(f, "grossProfit")),
                         Item(<<"s", "g", "a">>, Get(f, "sga")),
                         Item(<<"o", "p", "e", "r", "a", "t", "i", "n", "g", " ", "p", "r", "o", "f", "i", "t">>, Get(f, "operatingProfit")),
                         Item(<<"n", "o", "n", "-", "o", "p", "e", "r", "a", "t", "i", "n", "g", " ", "i", "n", "c", "o", "m", "e">>, Get(f, "nonOperatingIncome")),
                         Item(<<"n", "o", "n", "-", "o", "p", "e", "r", "a", "t", "i", "n", "g", " ", "e", "x", "p", "e", "n", "s", "e", "s">>, Get(f, "nonOperatingExpenses")),
                         Item(<<"o", "r", "d", "i", "n", "a", "r", "y", " ", "p", "r", "o", "f", "i", "t">>, Get(f, "ordinaryProfit")),
                         Item(<<"e", "x", "t", "r", "a", "o", "r", "d", "i", "n", "a", "r", "y", " ", "i", "n", "c", "o", "m", "e">>, Get(f, "extraordinaryIncome")),
                         Item(<<"e", "x", "t", "r", "a", "o", "r", "d", "i", "n", "a", "r", "y", " ", "l", "o", "s", "s">>, Get(f, "extraordinaryLoss")),
                         Item(<<"p", "r", "e", "-", "t", "a", "x", " ", "p", "r", "o", "f", "i", "t">>, Get(f, "preTaxProfit")),
                         Item(<<"t", "a", "x">>, Get(f, "tax")),
                         Item(<<"n", "e", "t", " ", "p", "r", "o", "f", "i", "t">>, Get(f, "netProfit"))>>)])>>

CFSections(f) ==
  <<Obj([title |-> Str(<<"c", "a", "s", "h", " ", "f", "l", "o", "w">>),
         items |-> Arr(<<Item(<<"o", "p", "e", "r", "a", "t", "i", "n", "g", " ", "c", "f">>, Get(f, "operatingCF")),
                         Item(<<"i", "n", "v", "e", "s", "t", "i", "n", "g", " ", "c", "f">>, Get(f, "investingCF")),
                         Item(<<"f", "i", "n", "a", "n", "c", "i", "n", "g", " ", "c", "f">>, Get(f, "financingCF")),
                         Item(<<"n", "e", "t", " ", "c", "h", "a", "n", "g", "e">>,
                              Plus(Plus(Get(f, "operatingCF"), Get(f, "investingCF")),
                                   Get(f, "financingCF"))),
                         Item(<<"c", "a", "s", "h", " ", "a", "t", " ", "b", "e", "g", "i", "n", "n", "i", "n", "g">>, Get(f, "cashAtBeginning")),
                         Item(<<"c", "a", "s", "h", " ", "a", "t", " ", "e", "n", "d">>, Get(f, "cashAtEnd"))>>)])>>

\* generateLocalFinancialDocuments(yearData, type): Throw without a financials block, and for
\* the balance sheet when a group of the block is no object
generateLocalFinancialDocuments(yearData, t) ==
  LET f == Get(yearData, "financials") IN
  IF ~Truthy(f) THEN Throw
  ELSE IF t = "BS" /\ \E g \in {"currentAssets", "fixedAssets", "currentLiabilities",
                               "fixedLiabilities", "netAssets"} : ~IsObj(Get(f, g))
  THEN Throw
  ELSE Doc(StringOf(Get(yearData, "year")) \o <<"-">> \o TypeChars(t), t, Get(yearData, "year"),
           DocTypeLabel(t).v,
           Obj([sections |-> Arr(CASE t = "BS" -> BSSections(f)
                                   [] t = "PL" -> PLSections(f)
                                   [] t = "CF" -> CFSections(f)
                                   [] OTHER -> <<>>)]))

\* the twelve synthetic months of generateSingleDocument
SingleFallbackSections(yearData) ==
  LET yearly == RoundDiv(Times(Or(Get(yearData, "revenue"), Num(0)), Num(1000000)), 1)
      monthly == RoundDiv(yearly, 12)
  IN Arr([i \in 1..Len(monthNames) |->
            Obj([title |-> Str(monthNames[i]), breakPage |-> Bool(FALSE), headers |-> JEHeaders,
                 items |-> Arr(<<
                   Obj([date |-> Str(IntChars(i) \o <<"M", " ", "e", "n", "d">>), account |-> Str(<<"r", "e", "c", "e", "i", "v", "a", "b", "l", "e">>),
                        debit |-> monthly, credit |-> Num(0),
                        label |-> Str(<<"m", "o", "n", "t", "h", "l", "y", " ", "s", "a", "l", "e", "s", " ", "(", "e", "s", "t", "i", "m", "a", "t", "e", ")">>)]),
                   Obj([date |-> Str(IntChars(i) \o <<"M", " ", "e", "n", "d">>), account |-> Str(<<"s", "a", "l", "e", "s">>),
                        debit |-> Num(0), credit |-> monthly,
                        label |-> Str(<<"m", "o", "n", "t", "h", "l", "y", " ", "s", "a", "l", "e", "s", " ", "b", "o", "o", "k", "e", "d", " ", "(", "e", "s", "t", "i", "m", "a", "t", "e", ")">>)])>>)])])

\* parsed && Array.isArray(parsed.sections) && parsed.sections.length > 0 &&
\* parsed.sections.some(s => Array.isArray(s.items) && s.items.length > 0); a null section
\* throws, which the enclosing try turns into the synthetic months as well
HasSections(parsed) ==
  /\ Truthy(parsed)
  /\ IsArr(Get(parsed, "sections"))
  /\ ~\E i \in 1..Len(Get(parsed, "sections").v) : Nullish(Get(parsed, "sections").v[i])
  /\ \E i \in 1..Len(Get(parsed, "sections").v) :
       LET its == Get(Get(parsed, "sections").v[i], "items") IN IsArr(its) /\ its.v # <<>>

\* getClient(): Throw when no API key is configured
getClient(apiKey) == IF ~Truthy(apiKey) THEN Throw ELSE Obj([apiKey |-> apiKey])

\* generateSingleDocument(company, yearData, type) when the LLM answers resp (the company is
\* taken to have a CEO history): the document, or Throw when the promise rejects
generateSingleDocument(apiKey, yearData, t, resp) ==
  IF getClient(apiKey) = Throw THEN Throw
  ELSE IF t = "NEWSLETTER"
  THEN IF resp.rejected THEN Throw
       ELSE Doc(<<"N", "E", "W", "S", "L", "E", "T", "T", "E", "R", "-">> \o StringOf(Get(yearData, "year")), t, Get(yearData, "year"),
                NLTitle(Get(yearData, "year")), Or(Str(resp.text), Str(<<"E", "r", "r", "o", "r">>)))
  ELSE IF t = "JE"
  THEN LET direct == IF resp.rejected THEN Throw ELSE JsonParse(Trim(resp.text))
           parsed == IF resp.rejected THEN Null
                     ELSE IF direct # Throw THEN direct ELSE safeParseJson(resp.text)
       IN Doc(<<"J", "E", "-">> \o StringOf(Get(yearData, "year")), t, Get(yearData, "year"),
              JETitle(Get(yearData, "year")),
              IF HasSections(parsed) THEN parsed
              ELSE Obj([sections |-> SingleFallbackSections(yearData)]))
  ELSE Throw

\* the environments: with or without an API key; VITE_CHUNK_YEARS unset, "1", "2", or a word
ApiKeys == {Undef, Str(<<"k">>)}
ChunkSettings ==
  {Undef, Str(<<"1">>), Str(<<"2">>), Str(<<"x">>), Str(<<"0">>), Str(<<"-", "1">>),
   Str(<<"1", ".", "5">>)}

\* the document types a caller may request, in the order requested
TypeLists ==
  {<<>>, <<"BS">>, <<"JE">>, <<"PL", "NEWSLETTER">>, <<"JE", "BS", "NEWSLETTER", "CF">>}

\* what the LLM may answer during one batch run
LlmProfiles ==
  {{"good"}, {"reject"}, {"good", "reject"}, {"prose", "partial"}, {"wrapped", "hollow"},
   {"empty", "truncated"}}

\* the entries of the history of events: a call of getClient, an LLM request sent for the
\* chunk (or, in the per-year fallback, the year) i of the type t, that request settled
\* and its result handled, a delay started, a local document pushed
GetClient == <<"getClient">>
Request(t, i) == <<"request", t, i>>
Settled(t, i) == <<"settled", t, i>>
Delay(ms) == <<"delay", ms>>
Local(id) == <<"local", id>>

\* a delay follows every chunk, the last one too
MoreChunks_Always(chunks, i) == TRUE

\* chunks.indexOf(chunk) < chunks.length - 1, for the chunk at the position i counted from 1
MoreChunks(chunks, i) == i - 1 < Len(chunks) - 1

\* the request of the chunk kIdx settles; the rest of the loop body runs up to the next await
ChunkSettle ==
  /\ kpc = "request"
  /\ \E kind \in llm :
       LET chunk == kChunks[kIdx]
           resp == ResponseOf(kind, kType, chunk)
       IN \E out \in {ProcessChunk(kType, chunk, resp)} :
            /\ kResults' = kResults \o out.docs
            /\ kResp' = Append(kResp, resp)
            /\ kMark' = Append(kMark, Len(kResults))
            /\ kFailed' = IF out.failed THEN kFailed \cup {kIdx} ELSE kFailed
            /\ kDebug' = IF out.failed
                         THEN Append(kDebug, saveDebugResponse(<<kType, kIdx>>, out.err))
                         ELSE kDebug
            /\ made' = made \cup {out.docs[i] : i \in 1..Len(out.docs)}
  /\ IF MoreChunks(kChunks, kIdx)
     THEN /\ kpc' = "delay" /\ timer' = ChunkDelayMs
          /\ events' = events \o <<Settled(kType, kIdx), Delay(ChunkDelayMs)>>
     ELSE /\ kpc' = "returned" /\ timer' = 0
          /\ events' = Append(events, Settled(kType, kIdx))
  /\ UNCHANGED <<env, hist, llm, kType, kChunks, kIdx, batchVars, pureVars>>

\* delay(1500) after a chunk is over: the loop goes on to the next chunk and sends its
\* request, or ends when there is none
DelayElapse ==
  /\ kpc = "delay"
  /\ timer = ChunkDelayMs
  /\ timer' = 0
  /\ IF kIdx < Len(kChunks)
     THEN /\ kpc' = "request"
          /\ kIdx' = kIdx + 1
          /\ events' = Append(events, Request(kType, kIdx + 1))
     ELSE kpc' = "returned" /\ UNCHANGED <<kIdx, events>>
  /\ UNCHANGED <<env, hist, llm, kType, kChunks, kResults, kResp, kMark, kFailed, kDebug, made,
                 batchVars, pureVars>>

\* generateBulkDocuments sending the requests of all its chunks before it awaits the first
EnterBulk_AllAtOnce(t, ev) ==
  /\ kType' = t
  /\ kResults' = <<>> /\ kResp' = <<>> /\ kMark' = <<>> /\ kFailed' = {} /\ timer' = 0
  /\ IF getClient(env.apiKey) = Throw
     THEN kpc' = "threw" /\ kChunks' = <<>> /\ kIdx' = 0 /\ events' = Append(ev, GetClient)
     ELSE \E size \in {ChunkYears(env.chunkYears)} :
            IF Endless(hist, size)
            THEN kpc' = "hung" /\ kChunks' = <<>> /\ kIdx' = 0 /\ events' = Append(ev, GetClient)
            ELSE /\ kChunks' = chunkArray(hist, size)
                 /\ IF t \in BulkTypes /\ hist # <<>>
                    THEN /\ kpc' = "request" /\ kIdx' = 1
                         /\ events' = ev \o <<GetClient>>
                                         \o [i \in 1..Len(chunkArray(hist, size)) |-> Request(t, i)]
                    ELSE kpc' = "returned" /\ kIdx' = 0 /\ events' = Append(ev, GetClient)

\* generateBulkDocuments(company, history, t) up to its first await: getClient, the chunking
\* (which may never end), and the first request.  For a type other than JE and NEWSLETTER every per-year
\* generateSingleDocument rejects and the results stay empty.
EnterBulk(t, ev) ==
  /\ kType' = t
  /\ kResults' = <<>> /\ kResp' = <<>> /\ kMark' = <<>> /\ kFailed' = {} /\ timer' = 0
  /\ IF getClient(env.apiKey) = Throw
     THEN kpc' = "threw" /\ kChunks' = <<>> /\ kIdx' = 0 /\ events' = Append(ev, GetClient)
     ELSE \E size \in {ChunkYears(env.chunkYears)} :
            IF Endless(hist, size)
            THEN kpc' = "hung" /\ kChunks' = <<>> /\ kIdx' = 0 /\ events' = Append(ev, GetClient)
            ELSE /\ kChunks' = chunkArray(hist, size)
                 /\ IF t \in BulkTypes /\ hist # <<>>
                    THEN /\ kpc' = "request" /\ kIdx' = 1
                         /\ events' = ev \o <<GetClient, Request(t, 1)>>
                    ELSE kpc' = "returned" /\ kIdx' = 0 /\ events' = Append(ev, GetClient)

\* a direct call of generateBulkDocuments
BulkCall ==
  /\ kpc = "ready"
  /\ EnterBulk(kType, events)
  /\ UNCHANGED <<env, hist, llm, kDebug, made, batchVars, pureVars>>

NextBulk == BulkCall \/ ChunkSettle \/ DelayElapse

IdleBatch ==
  /\ bTypes = <<>> /\ bpc = "idle" /\ bApi = <<>> /\ bIdx = 0 /\ bResults = <<>>
  /\ completedCount = 0 /\ progress = <<>>

\* what the LLM may answer during one bulk run: one kind of answer, or any two kinds mixed
BulkProfiles == {p \in SUBSET ResponseKinds : Cardinality(p) \in {1, 2}}

\* generateBulkDocuments called on a history of up to MaxHist years, the LLM answering each
\* request with one of the kinds of the run
InitBulk ==
  /\ env \in [apiKey : ApiKeys, chunkYears : ChunkSettings]
  /\ \E n \in 0..MaxHist, rev \in {Num(0), Num(120)} : hist = History(n, rev, {})
  /\ llm \in BulkProfiles
  /\ kType \in {"JE", "NEWSLETTER", "BS"}
  /\ kpc = "ready" /\ kChunks = <<>> /\ kIdx = 0 /\ kResults = <<>> /\ kResp = <<>>
  /\ kMark = <<>> /\ kFailed = {} /\ kDebug = <<>> /\ made = {} /\ timer = 0 /\ events = <<>>
  /\ IdleBatch /\ IdleRecon /\ IdleParse /\ IdleMonths /\ IdleNorm

SpecBulk == InitBulk /\ [][NextBulk]_vars

-----------------------------------------------------------------------------
(* The batch controller batchGenerateDocuments *)

\* the labels handed to onProgress
BulkLabel(t) == <<"G", "e", "n", "e", "r", "a", "t", "i", "n", "g", " ">> \o DocTypeLabel(t).v \o <<" ", "(", "b", "u", "l", "k", ")">>
YearLabel(t, y) == DocTypeLabel(t).v \o <<" ", "(">> \o StringOf(Get(y, "year")) \o <<")">>
DoneLabel == <<"d", "o", "n", "e">>

\* the elements of a sequence
Range(s) == {s[i] : i \in 1..Len(s)}

\* the first loop of batchGenerateDocuments without its guard if (h.financials)
RECURSIVE LocalLoop_Unguarded(_, _, _, _, _, _)
LocalLoop_Unguarded(history, localTypes, i, j, docs, count) ==
  IF i > Len(history) THEN [docs |-> docs, count |-> count, threw |-> FALSE]
  ELSE IF j > Len(localTypes) THEN LocalLoop_Unguarded(history, localTypes, i + 1, 1, docs, count)
  ELSE The({IF d = Throw THEN [docs |-> docs, count |-> count, threw |-> TRUE]
            ELSE LocalLoop_Unguarded(history, localTypes, i, j + 1, Append(docs, d), count + 1)
            : d \in {generateLocalFinancialDocuments(history[i], localTypes[j])}})

\* the first loop of batchGenerateDocuments, from the year i and the type j of localTypes on:
\* the documents pushed, the count reached, and whether generateLocalFinancialDocuments threw
RECURSIVE LocalLoop(_, _, _, _, _, _)
LocalLoop(history, localTypes, i, j, docs, count) ==
  IF i > Len(history) THEN [docs |-> docs, count |-> count, threw |-> FALSE]
  ELSE IF j > Len(localTypes) THEN LocalLoop(history, localTypes, i + 1, 1, docs, count)
  ELSE IF Truthy(Get(history[i], "financials"))
  THEN The({IF d = Throw THEN [docs |-> docs, count |-> count, threw |-> TRUE]
            ELSE LocalLoop(history, localTypes, i, j + 1, Append(docs, d), count + 1)
            : d \in {generateLocalFinancialDocuments(history[i], localTypes[j])}})
  ELSE LocalLoop(history, localTypes, i, j + 1, docs, count + 1)

\* the API types taken to be every requested type
apiTypesOf_Unfiltered(types) == types

\* types.filter(...): the local types and the API types, in the order requested
localTypesOf(types) == SelectSeq(types, LAMBDA t : t \in LocalTypes)
apiTypesOf(types) == SelectSeq(types, LAMBDA t : t \notin LocalTypes)

\* the head of the loop over apiTypes with rest still to do: onProgress and the call of
\* generateBulkDocuments up to its first await; after the last type the final onProgress and
\* the return
Advance(results, count, prog, rest, ev) ==
  /\ bResults' = results
  /\ completedCount' = count
  /\ bApi' = rest
  /\ bIdx' = 0
  /\ IF rest = <<>>
     THEN /\ progress' = Append(prog, <<count, DoneLabel>>)
          /\ bpc' = "returned"
          /\ kpc' = "idle"
          /\ events' = ev
          /\ UNCHANGED <<kType, kChunks, kIdx, kResults, kResp, kMark, kFailed, timer>>
     ELSE /\ progress' = Append(prog, <<count, BulkLabel(Head(rest))>>)
          /\ bpc' = "bulk"
          /\ EnterBulk(Head(rest), ev)

\* batchGenerateDocuments(company, history, types, onProgress) up to its first await
BatchStart ==
  /\ bpc = "ready"
  /\ \E loc \in {LocalLoop(hist, localTypesOf(bTypes), 1, 1, <<>>, 0)} :
       IF loc.threw
       THEN /\ bpc' = "rejected"
            /\ UNCHANGED <<bApi, bIdx, bResults, completedCount, progress, made, kType, kpc,
                           kChunks, kIdx, kResults, kResp, kMark, kFailed, timer, events>>
       ELSE /\ Advance(loc.docs, loc.count, <<>>, apiTypesOf(bTypes),
                       [i \in 1..Len(loc.docs) |-> Local(Get(loc.docs[i], "id"))])
            /\ made' = made \cup Range(loc.docs)
  /\ UNCHANGED <<env, hist, llm, kDebug, bTypes, pureVars>>

\* the promise of generateBulkDocuments fulfils: results.push(...docs), the count grows by
\* docs.length, and the loop goes on to the next type
BulkResolved ==
  /\ bpc = "bulk"
  /\ kpc = "returned"
  /\ Advance(bResults \o kResults, completedCount + Len(kResults), progress, Tail(bApi),
             events)
  /\ UNCHANGED <<env, hist, llm, kDebug, made, bTypes, pureVars>>

\* generateSingleDocument(company, hist[i], t) up to its first await: getClient, and the
\* request unless getClient threw
EnterSingle(t, i) ==
  IF getClient(env.apiKey) = Throw THEN <<GetClient>> ELSE <<GetClient, Request(t, i)>>

\* the promise of generateBulkDocuments rejects: the catch block starts the per-year loop
\* with the first onProgress and the first call of generateSingleDocument
BulkRejected ==
  /\ bpc = "bulk"
  /\ kpc = "threw"
  /\ IF hist = <<>>
     THEN Advance(bResults, completedCount, progress, Tail(bApi), events)
     ELSE /\ bpc' = "single"
          /\ bIdx' = 1
          /\ progress' = Append(progress, <<completedCount, YearLabel(Head(bApi), hist[1])>>)
          /\ events' = events \o EnterSingle(Head(bApi), 1)
          /\ UNCHANGED <<bApi, bResults, completedCount, kType, kpc, kChunks, kIdx, kResults,
                         kResp, kMark, kFailed, timer>>
  /\ UNCHANGED <<env, hist, llm, kDebug, made, bTypes, pureVars>>

\* the promise of generateSingleDocument for the year bIdx settles: the document is pushed
\* unless the promise rejected, the count grows by one, and delay(200) starts
SingleSettle ==
  /\ bpc = "single"
  /\ \E kind \in llm :
       \E d \in {generateSingleDocument(env.apiKey, hist[bIdx], Head(bApi),
                                        ResponseOf(kind, Head(bApi), <<hist[bIdx]>>))} :
         /\ bResults' = IF d = Throw THEN bResults ELSE Append(bResults, d)
         /\ made' = IF d = Throw THEN made ELSE made \cup {d}
  /\ completedCount' = completedCount + 1
  /\ bpc' = "pause"
  /\ timer' = FallbackDelayMs
  /\ events' = events \o (IF getClient(env.apiKey) = Throw THEN <<>>
                           ELSE <<Settled(Head(bApi), bIdx)>>) \o <<Delay(FallbackDelayMs)>>
  /\ UNCHANGED <<env, hist, llm, kType, kpc, kChunks, kIdx, kResults, kResp, kMark, kFailed,
                 kDebug, bTypes, bApi, bIdx, progress, pureVars>>

\* delay(200) is over: the next year of the per-year loop, or the next type
PauseElapse ==
  /\ bpc = "pause"
  /\ timer = FallbackDelayMs
  /\ IF bIdx < Len(hist)
     THEN /\ bpc' = "single"
          /\ bIdx' = bIdx + 1
          /\ progress' = Append(progress, <<completedCount, YearLabel(Head(bApi), hist[bIdx + 1])>>)
          /\ timer' = 0
          /\ events' = events \o EnterSingle(Head(bApi), bIdx + 1)
          /\ UNCHANGED <<bApi, bResults, completedCount, kType, kpc, kChunks, kIdx, kResults,
                         kResp, kMark, kFailed>>
     ELSE Advance(bResults, completedCount, progress, Tail(bApi), events)
  /\ UNCHANGED <<env, hist, llm, kDebug, made, bTypes, pureVars>>

NextBatch ==
  \/ BatchStart
  \/ BulkResolved
  \/ BulkRejected
  \/ SingleSettle
  \/ PauseElapse
  \/ ChunkSettle
  \/ DelayElapse

\* the environments of a batch run: no API key, or a key with VITE_CHUNK_YEARS unset or "2"
BatchEnvs ==
  {[apiKey |-> Undef, chunkYears |-> Undef]}
    \cup [apiKey : {Str(<<"k">>)}, chunkYears : {Undef, Str(<<"2">>)}]

\* batchGenerateDocuments called on a history of up to MaxHist years, any of which may lack
\* its financials block, for each list of types, each environment and each way the LLM
\* answers
InitBatch ==
  /\ env \in BatchEnvs
  /\ \E n \in 0..MaxHist : \E lacking \in SUBSET (1..n) : hist = History(n, Num(120), lacking)
  /\ llm \in LlmProfiles
  /\ bTypes \in TypeLists
  /\ bpc = "ready" /\ bApi = <<>> /\ bIdx = 0 /\ bResults = <<>> /\ completedCount = 0
  /\ progress = <<>>
  /\ kType = "" /\ kpc = "idle" /\ kChunks = <<>> /\ kIdx = 0 /\ kResults = <<>> /\ kResp = <<>>
  /\ kMark = <<>> /\ kFailed = {} /\ kDebug = <<>> /\ made = {} /\ timer = 0 /\ events = <<>>
  /\ IdleRecon /\ IdleParse /\ IdleMonths /\ IdleNorm

SpecBatch == InitBatch /\ [][NextBatch]_vars

\* every awaited promise settles and every timer fires: a step that is possible is taken
SpecBatchFair == SpecBatch /\ WF_vars(NextBatch)

-----------------------------------------------------------------------------
(* Properties of the reconciliation pass *)

\* the integer a balance-sheet sub-field counts for: its value, 0 when blank or absent
Amt(x) == IF IsNum(x) THEN x.v ELSE 0

RECURSIVE AddUp(_, _)
AddUp(r, ks) ==
  IF ks = {} THEN 0
  ELSE LET k == CHOOSE x \in ks : TRUE IN Amt(r[k]) + AddUp(r, ks \ {k})

\* the sum of the sub-fields of a balance-sheet group, an absent group having none
GroupSum(g) == IF IsObj(g) THEN AddUp(g.v, DOMAIN g.v) ELSE 0

FinIn == Get(yIn, "financials")
FinOut == Get(yRet, "financials")
Reconciled == rpc = "returned" /\ Truthy(FinIn)

\* C1: after the pass, a record with a financials block has totalAssets = sum(currentAssets) +
\* sum(fixedAssets), totalLiabilities = sum(currentLiabilities) + sum(fixedLiabilities) and
\* totalNetAssets = totalAssets - totalLiabilities, whatever totals the input supplied.
C1_BalanceIdentities ==
  Reconciled =>
    /\ Get(FinOut, "totalAssets") =
         Num(GroupSum(Get(FinOut, "currentAssets")) + GroupSum(Get(FinOut, "fixedAssets")))
    /\ Get(FinOut, "totalLiabilities") =
         Num(GroupSum(Get(FinOut, "currentLiabilities")) + GroupSum(Get(FinOut, "fixedLiabilities")))
    /\ Get(FinOut, "totalNetAssets") =
         Num(Amt(Get(FinOut, "totalAssets")) - Amt(Get(FinOut, "totalLiabilities")))

\* a supplied totalAssets of 50 that contradicts the sub-fields has been overwritten
C1_Witness ==
  /\ Reconciled
  /\ Get(FinIn, "totalAssets") = Num(50)
  /\ Get(FinIn, "totalNetAssets") = Num(50)
  /\ Get(FinOut, "totalAssets") = Num(200)
  /\ Get(FinOut, "totalLiabilities") = Num(50)
  /\ Get(FinOut, "totalNetAssets") = Num(150)

\* the input of the worked example: cash 100, every other asset and liability sub-field 0,
\* capitalStock 50, other 0
IsExampleInput(f) ==
  /\ IsObj(Get(f, "currentAssets")) /\ IsObj(Get(f, "fixedAssets"))
  /\ IsObj(Get(f, "currentLiabilities")) /\ IsObj(Get(f, "fixedLiabilities"))
  /\ Get(Get(f, "currentAssets"), "cash") = Num(100)
  /\ GroupSum(Get(f, "currentAssets")) = 100
  /\ \A k \in DOMAIN Get(f, "currentAssets").v \ {"cash"} : Get(f, "currentAssets").v[k] = Num(0)
  /\ \A k \in DOMAIN Get(f, "fixedAssets").v : Get(f, "fixedAssets").v[k] = Num(0)
  /\ \A k \in DOMAIN Get(f, "currentLiabilities").v : Get(f, "currentLiabilities").v[k] = Num(0)
  /\ \A k \in DOMAIN Get(f, "fixedLiabilities").v : Get(f, "fixedLiabilities").v[k] = Num(0)
  /\ Get(Get(f, "netAssets"), "capitalStock") = Num(50)
  /\ Get(Get(f, "netAssets"), "other") = Num(0)

\* C2: after the pass retainedEarnings = totalNetAssets - capitalStock - other, so that
\* capitalStock + retainedEarnings + other = totalAssets - totalLiabilities; the worked example
\* comes out with totalAssets 100, totalLiabilities 0, totalNetAssets 100, retainedEarnings 50.
C2_RetainedEarningsPlug ==
  Reconciled =>
    LET na == Get(FinOut, "netAssets")
        cap == Amt(Get(na, "capitalStock"))
        oth == Amt(Get(na, "other"))
    IN /\ Get(na, "retainedEarnings") = Num(Amt(Get(FinOut, "totalNetAssets")) - cap - oth)
       /\ IsNum(Get(na, "retainedEarnings"))
       /\ cap + Get(na, "retainedEarnings").v + oth =
            Amt(Get(FinOut, "totalAssets")) - Amt(Get(FinOut, "totalLiabilities"))
       /\ IsExampleInput(FinIn) =>
            /\ Get(FinOut, "totalAssets") = Num(100)
            /\ Get(FinOut, "totalLiabilities") = Num(0)
            /\ Get(FinOut, "totalNetAssets") = Num(100)
            /\ Get(na, "retainedEarnings") = Num(50)

\* the worked example has been reconciled, and so has an input whose netAssets.other is 50
C2_Witness ==
  /\ Reconciled
  /\ IsExampleInput(FinIn)
  /\ Get(Get(FinOut, "netAssets"), "retainedEarnings") = Num(50)

\* C3: after the pass, whenever sales, cogs and sga are numbers (equal ones included),
\* grossProfit = sales - cogs and operatingProfit = grossProfit - sga, whatever grossProfit
\* and operatingProfit the input supplied.
C3_PLChain ==
  (/\ Reconciled
   /\ IsNum(Get(FinIn, "sales")) /\ IsNum(Get(FinIn, "cogs")) /\ IsNum(Get(FinIn, "sga")))
  => /\ Get(FinOut, "grossProfit") = Num(Get(FinIn, "sales").v - Get(FinIn, "cogs").v)
     /\ Get(FinOut, "operatingProfit") =
          Num(Get(FinIn, "sales").v - Get(FinIn, "cogs").v - Get(FinIn, "sga").v)

\* C10: the pass never throws, whatever the parsed yearly record is.
C10_NeverThrows == rpc # "threw"

-----------------------------------------------------------------------------
(* Properties of the extractor *)

ValueTags == {"null", "boolean", "number", "string", "array", "object"}

\* C8: safeParseJson never throws, whatever the text: it returns null or a value.
C8_ExtractorTotal ==
  /\ ppc # "threw"
  /\ ppc = "returned" => pRet.t \in ValueTags

\* a truncated array, on which the three JSON.parse attempts fail, came back as its one line
C8_Witness ==
  /\ ppc = "returned"
  /\ pText = <<"[", "1", ",">>
  /\ JsonParse(pText) = Throw
  /\ pRet = Arr(<<Str(pText)>>)

\* C9: safeParseJson(JSON.stringify(v)) = v for every JSON-encodable v.
C9_RoundTrip == (ppc = "returned" /\ pVal # NoValue) => pRet = pVal

\* an object holding an array and a string with characters that need escaping went round
C9_Witness ==
  /\ ppc = "returned"
  /\ pVal = Arr(<<Obj([a |-> Num(0), b |-> Str(<<"a", "\"", "\\", "\n", " ", "{">>)])>>)
  /\ pRet = pVal

-----------------------------------------------------------------------------
(* Properties of the month normalizer *)

\* C7: after ensureYearMonths on a parsed object whose years is an array, every year entry has
\* exactly 12 month buckets titled 4M, 5M, ..., 12M, 1M, 2M, 3M in this order, each with an
\* items array, whether the model supplied no months, fewer, more, or a top-level months array
\* (stated for the year entries that are objects).
C7_TwelveBuckets ==
  (mpc = "returned" /\ IsObj(mIn) /\ IsArr(Get(mIn, "years"))) =>
    \A i \in {k \in 1..Len(Get(mRet, "years").v) : IsObj(Get(mIn, "years").v[k])} :
      LET ms == Get(Get(mRet, "years").v[i], "months")
      IN /\ IsArr(ms)
         /\ Len(ms.v) = 12
         /\ \A j \in 1..12 : Get(ms.v[j], "title") = MonthTitles[j] /\ IsArr(Get(ms.v[j], "items"))

-----------------------------------------------------------------------------
(* Properties of the chunked bulk generator *)

\* the documents the chunk c added to the results
Segment(c) ==
  SubSeq(kResults, kMark[c] + 1, IF c < Len(kMark) THEN kMark[c + 1] ELSE Len(kResults))

\* the years of a sequence of year records
YearsOf(hs) == [i \in 1..Len(hs) |-> Get(hs[i], "year").v]

\* the chunk c was answered with a text that lists an entry for each of its years
ListsEveryYear(c) ==
  /\ ~kResp[c].rejected
  /\ \E list \in {Get(ParseResponse(kResp[c].text), ListKey(kType))} :
       /\ IsArr(list)
       /\ Len(list.v) = Len(kChunks[c])
       /\ \A i \in 1..Len(list.v) :
            IsObj(list.v[i]) /\ Get(list.v[i], "year") = Get(kChunks[c][i], "year")

\* C4: when generateBulkDocuments returns, every chunk has been requested; a chunk that did
\* not fail added the documents its own response yields, a chunk that failed added exactly one
\* placeholder per year of the chunk, and when every chunk that did not fail listed all its
\* years the number of documents is the number of years.
C4_ChunkIsolation ==
  (kpc = "returned" /\ kType \in BulkTypes) =>
    /\ Len(kResp) = Len(kChunks)
    /\ \A c \in 1..Len(kChunks) :
         IF c \in kFailed
         THEN Segment(c) = Placeholders(kType, kChunks[c])
         ELSE Segment(c) = ProcessChunk(kType, kChunks[c], kResp[c]).docs
    /\ (\A c \in 1..Len(kChunks) : c \in kFailed \/ ListsEveryYear(c)) =>
         Len(kResults) = Len(hist)

\* the title of the j-th month of the fiscal year, which runs from April to March
FiscalMonth(j) == Str(NatChars(((j + 2) % 12) + 1) \o <<"M">>)

\* a journal line that debits the amount a, and one that credits it
DebitLine(it, a) == Get(it, "debit") = Num(a) /\ Get(it, "credit") = Num(0)
CreditLine(it, a) == Get(it, "debit") = Num(0) /\ Get(it, "credit") = Num(a)

\* the document is the synthetic journal of the year: 12 sections titled April to March, each
\* of two lines, one debit and one credit of the same amount
SyntheticJournal(doc, year) ==
  /\ Get(doc, "id") = Str(<<"J", "E", "-">> \o NatChars(year))
  /\ \E sections \in {Get(Get(doc, "content"), "sections")} :
       /\ IsArr(sections)
       /\ Len(sections.v) = 12
       /\ \A j \in 1..12 :
            /\ Get(sections.v[j], "title") = FiscalMonth(j)
            /\ \E items \in {Get(sections.v[j], "items")} :
                 /\ IsArr(items)
                 /\ Len(items.v) = 2
                 /\ IsNum(Get(items.v[1], "debit"))
                 /\ \E p \in {<<1, 2>>, <<2, 1>>} :
                      /\ DebitLine(items.v[p[1]], Get(items.v[p[1]], "debit").v)
                      /\ CreditLine(items.v[p[2]], Get(items.v[p[1]], "debit").v)

\* the chunk c added one synthetic journal per year of the chunk, in the order of the years
SyntheticSegment(c) ==
  /\ Len(Segment(c)) = Len(kChunks[c])
  /\ \A i \in 1..Len(kChunks[c]) : SyntheticJournal(Segment(c)[i], YearsOf(kChunks[c])[i])

\* the example: the years 2020, 2021, 2022 in chunks of two
IsChunkExample ==
  /\ kType = "JE"
  /\ YearsOf(hist) = <<2020, 2021, 2022>>
  /\ env.chunkYears = Str(<<"2">>)

ChunkExample ==
  (kpc \in {"request", "delay", "returned"} /\ IsChunkExample) =>
    /\ Len(kChunks) = 2
    /\ YearsOf(kChunks[1]) = <<2020, 2021>>
    /\ YearsOf(kChunks[2]) = <<2022>>

\* the response text of the chunk c is not JSON: JSON.parse rejects it
NotJson(c) == ~kResp[c].rejected /\ JsonParse(Trim(kResp[c].text)) = Throw

\* the extractor recovers an object with a years list from the response text of the chunk c
Recoverable(c) == IsArr(Get(safeParseJson(kResp[c].text), "years"))

\* C5 as stated: for journal entries a chunk whose response text is not JSON adds exactly one
\* document per year of the chunk, with the id JE-<year> and 12 month sections titled April
\* to March of two lines each, one debit and one credit of the same amount; the years 2020,
\* 2021, 2022 in chunks of two give the chunks [2020, 2021] and [2022].
C5_NotJsonFallback_AsStated ==
  /\ ChunkExample
  /\ (kpc = "returned" /\ kType = "JE") =>
       \A c \in 1..Len(kChunks) : NotJson(c) => SyntheticSegment(c)

\* C5 amended: the same for a chunk whose response text is not JSON and from which the
\* extractor recovers no object with a years list (a JSON body wrapped in prose is recovered
\* and yields its own documents instead).
C5_NotJsonFallback ==
  /\ ChunkExample
  /\ (kpc = "returned" /\ kType = "JE") =>
       \A c \in 1..Len(kChunks) : (NotJson(c) /\ ~Recoverable(c)) => SyntheticSegment(c)

\* the example run: the first chunk [2020, 2021] answered "not json", ids JE-2020 and JE-2021
C5_Witness ==
  /\ kpc = "returned"
  /\ IsChunkExample
  /\ kResp[1] = Text(Prose)
  /\ [i \in 1..2 |-> Get(Segment(1)[i], "id")] = <<Str(<<"J", "E", "-", "2", "0", "2", "0">>), Str(<<"J", "E", "-", "2", "0", "2", "1">>)>>

-----------------------------------------------------------------------------
(* Properties of the batch controller *)

\* the run has reached the type t of the API types
Reached(t) == \E i \in 1..Len(progress) : progress[i][2] = BulkLabel(t)

\* what the returned list holds and what was processed when batchGenerateDocuments returns:
\* every document that was generated, the local documents of every year that has a
\* financials block, and every API type reached
BestResult ==
  /\ made \subseteq Range(bResults)
  /\ \A i \in 1..Len(hist) : \A j \in 1..Len(bTypes) :
       (bTypes[j] \in LocalTypes /\ Truthy(Get(hist[i], "financials"))) =>
         \E k \in 1..Len(bResults) :
           /\ Get(bResults[k], "year") = Get(hist[i], "year")
           /\ Get(bResults[k], "type") = Str(TypeChars(bTypes[j]))
  /\ \A j \in 1..Len(bTypes) : bTypes[j] \notin LocalTypes => Reached(bTypes[j])
  /\ progress[Len(progress)] = <<completedCount, DoneLabel>>

\* C6: batchGenerateDocuments never rejects, whatever requests fail, whatever responses are
\* malformed and whichever years lack a financials block; it eventually returns, and the list
\* it returns holds every document that was generated, with every year and every type
\* processed.
C6_BatchNeverRejects ==
  /\ [](bpc # "rejected")
  /\ <>(bpc = "returned")
  /\ [](bpc = "returned" => BestResult)

\* a run over four types on a history with a year that lacks its financials block, in which a
\* journal chunk failed and the newsletters were still generated afterwards
C6_Witness ==
  /\ bpc = "returned"
  /\ bTypes = <<"JE", "BS", "NEWSLETTER", "CF">>
  /\ Len(hist) >= 2
  /\ \E i \in 1..Len(hist) : ~Truthy(Get(hist[i], "financials"))
  /\ \E i \in 1..Len(kDebug) : kDebug[i][1] = "JE"
  /\ \E k \in 1..Len(bResults) : Get(bResults[k], "type") = Str(TypeChars("NEWSLETTER"))

-----------------------------------------------------------------------------
(* Properties of the normalizers. *)

\* C11: normalizeNewsletters, normalizeJE and ensureYearMonths never throw: for every value
\* the extractor can return, every raw text and every list of expected years, the call
\* returns a value.
C11_NormalizersTotal == npc # "threw"

\* the newsletters array of the call is of even length at least 2, with numbers or
\* 4-digit-year strings at the even positions (counted from 0) and strings at the odd ones
AlternatingCall ==
  /\ nFn = "normalizeNewsletters" /\ IsObj(nIn) /\ IsArr(Get(nIn, "newsletters"))
  /\ LET items == Get(nIn, "newsletters").v
     IN /\ Len(items) >= 2 /\ Len(items) % 2 = 0
        /\ \A i \in 1..Len(items) :
             IF i % 2 = 1 THEN IsNum(items[i]) \/ (IsStr(items[i]) /\ IsYear4(items[i].v))
             ELSE IsStr(items[i])

\* [{year: Number(items[0]), content: items[1]}, ...]
PairedAsIs(items) ==
  Arr([k \in 1..(Len(items) \div 2) |->
         Obj([year |-> ToNumber(items[2 * k - 1]), content |-> items[2 * k]])])

\* [{year: Number(items[0]), content: items[1].trim()}, ...]
PairedTrimmed(items) ==
  Arr([k \in 1..(Len(items) \div 2) |->
         Obj([year |-> ToNumber(items[2 * k - 1]), content |-> Str(Trim(items[2 * k].v))])])

\* C12 as stated: for an alternating newsletters array, normalizeNewsletters returns the
\* positional pairing whose contents are the strings at the odd positions, unchanged.
C12_PositionalPairing_AsStated ==
  (npc = "returned" /\ AlternatingCall)
    => Get(nRet, "newsletters") = PairedAsIs(Get(nIn, "newsletters").v)

\* C12: for an alternating newsletters array, normalizeNewsletters returns the positional
\* pairing in order, each content being the string at the odd position with the white space
\* at its ends removed.
C12_PositionalPairing ==
  (npc = "returned" /\ AlternatingCall)
    => Get(nRet, "newsletters") = PairedTrimmed(Get(nIn, "newsletters").v)

\* {newsletters: [2020, "text A", 2021, "text B"]} gave the two entries of the example
C12_Witness ==
  /\ npc = "returned" /\ AlternatingCall
  /\ nIn = Obj([newsletters |-> Arr(<<Num(2020), Str(<<"t", "e", "x", "t", " ", "A">>), Num(2021), Str(<<"t", "e", "x", "t", " ", "B">>)>>)])
  /\ nRet = Obj([newsletters |->
                   Arr(<<Obj([year |-> Num(2020), content |-> Str(<<"t", "e", "x", "t", " ", "A">>)]),
                         Obj([year |-> Num(2021), content |-> Str(<<"t", "e", "x", "t", " ", "B">>)])>>)])

-----------------------------------------------------------------------------
(* Properties of the order of requests, delays and local documents. *)

\* the positions of the history of events that hold an entry of the given kind
EventsOf(kind) == {i \in 1..Len(events) : events[i][1] = kind}

\* the requested types are only BS, PL and CF
OnlyLocalTypes == \A i \in 1..Len(bTypes) : bTypes[i] \in LocalTypes

\* C13: a batchGenerateDocuments call whose types are only BS, PL and CF sends no LLM
\* request and is never suspended (it awaits no request and no delay), and in every call
\* no local document is pushed after an LLM request was sent.
C13_LocalIsSynchronous ==
  /\ OnlyLocalTypes =>
       /\ EventsOf("request") = {} /\ EventsOf("delay") = {}
       /\ bpc \notin {"bulk", "single", "pause"} /\ kpc \notin {"request", "delay"}
  /\ \A i \in EventsOf("request") : \A j \in EventsOf("local") : j < i

\* a call for BS alone returned one document per year, all pushed without a request
C13_Witness ==
  /\ bTypes = <<"BS">> /\ bpc = "returned" /\ Len(hist) = MaxHist
  /\ Len(bResults) = MaxHist /\ Len(events) = MaxHist /\ EventsOf("local") = 1..MaxHist

-----------------------------------------------------------------------------
(* Properties of the documents. *)

\* a FinancialSection as far as its title and its items go: title?: string, items: an array
IsSection(x) ==
  IsObj(x) /\ IsArr(Get(x, "items")) /\ Get(x, "title").t \in {"undefined", "string"}

\* content: string | { sections: FinancialSection[] }
IsContent(c) ==
  \/ IsStr(c)
  \/ /\ IsObj(c) /\ IsArr(Get(c, "sections"))
     /\ \A i \in 1..Len(Get(c, "sections").v) : IsSection(Get(c, "sections").v[i])

\* C14: every document produced by the bulk generator, the single generator, the local
\* generator and the batch controller has a content that is a string or an object with a
\* sections list of FinancialSection values, whatever the LLM answered.
C14_ContentShape ==
  \A d \in made \cup Range(kResults) \cup Range(bResults) : IsContent(Get(d, "content"))

\* C15: without an API key getClient is called once and the error it throws reaches the
\* caller: a batchGenerateDocuments call with a heavy document type does not return
\* normally, and client construction is not attempted a second time.
C15_MissingKeyIsFatal ==
  (~Truthy(env.apiKey) /\ bpc # "idle") =>
    /\ Cardinality(EventsOf("getClient")) <= 1
    /\ bpc = "returned" => apiTypesOf(bTypes) = <<>>

\* s[1] \o s[2] \o ... of a sequence of sequences
RECURSIVE Flatten(_)
Flatten(ss) == IF ss = <<>> THEN <<>> ELSE Head(ss) \o Flatten(Tail(ss))

\* C18: for every value of VITE_CHUNK_YEARS (unset, zero, negative, fractional, no number)
\* chunkArray returns, so that generateBulkDocuments is never caught in a loop without end,
\* and the chunks concatenated in order are the input history.
C18_ChunkingTerminates ==
  /\ kpc # "hung"
  /\ kpc \in {"request", "delay", "returned"} => Flatten(kChunks) = hist

\* the newsletters list of the normalizer's output for the extractor's result on the response
\* of the chunk c
NormalizedList(c) ==
  Get(normalizeNewsletters(ParseResponse(kResp[c].text), kResp[c].text,
                           [i \in 1..Len(kChunks[c]) |-> Get(kChunks[c][i], "year")]),
      "newsletters")

\* C16: the documents of a newsletter chunk are those of the normalizer's output for the
\* extractor's result on the response of the chunk; the flattened list
\* [2020, "text A", 2021, "text B"] yields NEWSLETTER-2020 and NEWSLETTER-2021 with the
\* contents "text A" and "text B".
C16_NormalizedBeforeUse ==
  \A c \in 1..Len(kResp) :
    (kType = "NEWSLETTER" /\ ~kResp[c].rejected) =>
      \E list \in {NormalizedList(c)} :
        IsArr(list) =>
          \E w \in {WalkNewsletters(list.v, 1, <<>>)} : ~w.threw => Segment(c) = w.docs

\* C17: when generateBulkDocuments returns for a heavy type, the results hold exactly one
\* document per input year and none for another year, and no two documents share an id.
C17_OnePerYear ==
  (kpc = "returned" /\ kType \in BulkTypes) =>
    /\ Len(kResults) = Len(hist)
    /\ {Get(kResults[i], "year") : i \in 1..Len(kResults)}
         = {Get(hist[i], "year") : i \in 1..Len(hist)}
    /\ \A i, j \in 1..Len(kResults) :
         Get(kResults[i], "id") = Get(kResults[j], "id") => i = j

\* the number of entries of the given kind among the first n events
CountUpTo(kind, n) == Cardinality({i \in EventsOf(kind) : i <= n})

\* C19: at no time is more than one LLM request outstanding; the request of the chunk k + 1
\* is sent only after the chunk k was handled; the chunks of a type are requested in the
\* order chunkArray sliced them, and their documents are added in that order.
C19_OneRequestAtATime ==
  /\ \A n \in 1..Len(events) : CountUpTo("request", n) - CountUpTo("settled", n) \in {0, 1}
  /\ \A i \in EventsOf("request") :
       events[i][3] > 1 =>
         \E j \in EventsOf("settled") :
           j < i /\ events[j][2] = events[i][2] /\ events[j][3] = events[i][3] - 1
  /\ \A i, j \in EventsOf("request") :
       (i < j /\ events[i][2] = events[j][2]) => events[i][3] < events[j][3]
  /\ \A c \in 1..Len(kMark) : c < Len(kMark) => kMark[c] <= kMark[c + 1]

\* a batch for two heavy types returned after the four requests of their two chunks each
C19_Witness ==
  /\ bpc = "returned" /\ Len(apiTypesOf(bTypes)) = 2
  /\ Cardinality(EventsOf("request")) = 4 /\ Cardinality(EventsOf("settled")) = 4

\* C20: a request that is not the first of its call directly follows a delay of 1500 ms,
\* which directly follows the handling of the chunk before, whether that chunk gave
\* documents or placeholders; nothing is awaited after the last chunk.
C20_DelayBetweenChunks ==
  /\ \A i \in EventsOf("request") :
       events[i][3] > 1 =>
         /\ events[i - 1] = Delay(ChunkDelayMs)
         /\ events[i - 2] = Settled(events[i][2], events[i][3] - 1)
  /\ \A i \in EventsOf("delay") :
       /\ events[i - 1][1] = "settled"
       /\ events[i - 1][3] < Len(kChunks)
  /\ kpc = "returned" => events[Len(events)][1] # "delay"

\* a call of three chunks returned: the first chunk fell back to placeholders, the second
\* gave documents, and two delays were awaited
C20_Witness ==
  /\ kpc = "returned" /\ Len(kChunks) = 3 /\ 1 \in kFailed /\ 2 \notin kFailed
  /\ Cardinality(EventsOf("delay")) = 2 /\ Cardinality(EventsOf("request")) = 3

\* the units of work finished so far: the local documents made, the chunks handled and the
\* per-year calls of the fallback loop that have settled
UnitsFinished ==
  Cardinality(EventsOf("local"))
    + Cardinality({i \in EventsOf("settled") :
                     i = Len(events) \/ events[i + 1] # Delay(FallbackDelayMs)})
    + Cardinality({i \in EventsOf("delay") : events[i][2] = FallbackDelayMs})

\* C21: when batchGenerateDocuments has returned, onProgress was invoked for every unit of
\* work after it finished: for every k from 1 to the number of units finished there is a
\* call that passed the completed-count k.
C21_ProgressPerUnit ==
  bpc = "returned" =>
    \A k \in 1..UnitsFinished : \E i \in 1..Len(progress) : progress[i][1] = k

\* a batch of local types only returned three documents and reported progress once, after
\* all of them, with the count 3
C21_Counterexample ==
  /\ bpc = "returned" /\ apiTypesOf(bTypes) = <<>>
  /\ Cardinality(EventsOf("local")) = 3
  /\ progress = <<<<3, DoneLabel>>>>

-----------------------------------------------------------------------------
(* One call of generateSingleDocument with its own LLM answer *)

\* how the LLM may answer the request of a single document
SingleKinds == {"reject", "good", "prose", "empty", "hollow"}

\* the answer of the given kind to the request for the type t and the year y: a good answer
\* is a newsletter text, or a JSON object whose sections hold items
SingleResponseOf(kind, t, y) ==
  IF kind = "good"
  THEN IF t = "JE"
       THEN Text(Stringify(Obj([sections |-> Get(GoodEntry("JE", y), "months")])))
       ELSE Text(<<"x">>)
  ELSE IF kind = "hollow" THEN Text(Stringify(Obj([sections |-> Arr(<<>>)])))
  ELSE ResponseOf(kind, t, <<y>>)

\* generateSingleDocument(company, hist[kIdx], kType) up to its first await: getClient, and
\* the request unless getClient threw or the type is none of the two heavy types
SingleCall ==
  /\ kpc = "ready"
  /\ events' = events \o (IF kType \in BulkTypes THEN EnterSingle(kType, kIdx)
                          ELSE <<GetClient>>)
  /\ kpc' = IF getClient(env.apiKey) = Throw \/ kType \notin BulkTypes THEN "threw"
            ELSE "awaiting"
  /\ UNCHANGED <<env, hist, llm, kType, kChunks, kIdx, kResults, kResp, kMark, kFailed, kDebug,
                 made, timer, batchVars, pureVars>>

\* the request settles and generateSingleDocument returns its document or rejects
SingleReturn ==
  /\ kpc = "awaiting"
  /\ \E kind \in llm :
       \E d \in {generateSingleDocument(env.apiKey, hist[kIdx], kType,
                                        SingleResponseOf(kind, kType, hist[kIdx]))} :
         /\ kpc' = IF d = Throw THEN "threw" ELSE "returned"
         /\ kResults' = IF d = Throw THEN kResults ELSE <<d>>
         /\ made' = IF d = Throw THEN made ELSE {d}
  /\ events' = Append(events, Settled(kType, kIdx))
  /\ UNCHANGED <<env, hist, llm, kType, kChunks, kIdx, kResp, kMark, kFailed, kDebug, timer,
                 batchVars, pureVars>>

NextSingle == SingleCall \/ SingleReturn

\* generateSingleDocument called for one year of a history of up to MaxHist years and any
\* type, the LLM answering in one of the ways of SingleKinds
InitSingle ==
  /\ env \in [apiKey : ApiKeys, chunkYears : {Undef}]
  /\ \E n \in 1..MaxHist, rev \in {Num(0), Num(120)} : hist = History(n, rev, {})
  /\ kIdx \in 1..Len(hist)
  /\ llm \in {{k} : k \in SingleKinds}
  /\ kType \in LocalTypes \cup BulkTypes
  /\ kpc = "ready" /\ kChunks = <<>> /\ kResults = <<>> /\ kResp = <<>>
  /\ kMark = <<>> /\ kFailed = {} /\ kDebug = <<>> /\ made = {} /\ timer = 0 /\ events = <<>>
  /\ IdleBatch /\ IdleRecon /\ IdleParse /\ IdleMonths /\ IdleNorm

SpecSingle == InitSingle /\ [][NextSingle]_vars

\* the content of d is synthetic: the placeholder content of a failed chunk, the journal
\* synthesized by generateSingleDocument, or the newsletter text "Error"
IsSynthetic(d) ==
  \/ Get(d, "content") = Str(<<"E", "r", "r", "o", "r">>)
  \/ \E i \in 1..Len(hist) :
       Get(d, "content") \in {Get(Placeholder("JE", hist[i]), "content"),
                              Get(Placeholder("NEWSLETTER", hist[i]), "content"),
                              Obj([sections |-> SingleFallbackSections(hist[i])])}

C22_Counterexample ==
  /\ kpc = "returned" /\ bpc = "idle" /\ kType = "JE" /\ llm = {"reject"}
  /\ Get(kResults[1], "content") = Obj([sections |-> SingleFallbackSections(hist[kIdx])])
  /\ Get(kResults[1], "title") = Str(JETitle(Get(hist[kIdx], "year")))

-----------------------------------------------------------------------------
(* generateLocalFinancialDocuments on one yearly record, reconciled first or taken as it is *)

\* the record the documents are made of
LocalInput == IF rpc = "returned" THEN yRet ELSE yObj

\* normalizeYear runs on the record before any document is made of it
ReconcileFirst == kpc = "ready" /\ Reconcile

\* generateLocalFinancialDocuments(LocalInput, kType)
GenerateLocal ==
  /\ kpc = "ready"
  /\ rpc \in {"ready", "returned"}
  /\ \E d \in {generateLocalFinancialDocuments(LocalInput, kType)} :
       /\ kpc' = IF d = Throw THEN "threw" ELSE "returned"
       /\ kResults' = IF d = Throw THEN kResults ELSE <<d>>
       /\ made' = IF d = Throw THEN made ELSE {d}
  /\ UNCHANGED <<env, hist, llm, kType, kChunks, kIdx, kResp, kMark, kFailed, kDebug, timer,
                 events, batchVars, reconVars, parseVars, monthVars, normVars>>

NextLocal == ReconcileFirst \/ GenerateLocal

\* a yearly record whose balance-sheet groups and totals vary, and one of the local types
InitLocal ==
  /\ \E ca \in CurrentAssetsIn, fa \in FixedAssetsIn, cl \in CurrentLiabilitiesIn,
        fl \in FixedLiabilitiesIn, tot \in {Undef, Num(50)},
        na \in {Undef, Obj([capitalStock |-> Num(50), retainedEarnings |-> Num(50),
                            other |-> Num(0)])} :
       yIn = Yearly(BSInput(ca, fa, cl, fl, na, tot))
  /\ yObj = yIn /\ yRet = Pending /\ rpc = "ready"
  /\ kType \in LocalTypes
  /\ env = <<>> /\ hist = <<>> /\ llm = {} /\ kpc = "ready" /\ kChunks = <<>> /\ kIdx = 0
  /\ kResults = <<>> /\ kResp = <<>> /\ kMark = <<>> /\ kFailed = {} /\ kDebug = <<>>
  /\ made = {} /\ timer = 0 /\ events = <<>>
  /\ IdleBatch /\ IdleParse /\ IdleMonths /\ IdleNorm

SpecLocal == InitLocal /\ [][NextLocal]_vars

\* every sub-field of the four asset and liability groups of f is a number, and so are the
\* stored totals
TypedBalanceSheet(f) ==
  /\ \A g \in {"currentAssets", "fixedAssets", "currentLiabilities", "fixedLiabilities"} :
       IsObj(Get(f, g)) /\ \A k \in DOMAIN Get(f, g).v : IsNum(Get(f, g).v[k])
  /\ IsNum(Get(f, "totalAssets")) /\ IsNum(Get(f, "totalLiabilities"))

\* the value of the row at position i of the section s of the document made
RowValue(s, i) ==
  Get(Get(Get(Get(kResults[1], "content"), "sections").v[s], "items").v[i], "value")

\* C23: each interior total row of the balance sheet made of a record (current assets
\* total, fixed assets total, current liabilities total, fixed liabilities total) is the sum
\* of the sub-fields of its own group, whatever totalAssets and totalLiabilities are stored.
C23_InteriorTotals ==
  (kpc = "returned" /\ kType = "BS" /\ TypedBalanceSheet(Get(LocalInput, "financials"))) =>
    LET f == Get(LocalInput, "financials") IN
    /\ RowValue(1, 7) = Num(GroupSum(Get(f, "currentAssets")))
    /\ RowValue(1, 12) = Num(GroupSum(Get(f, "fixedAssets")))
    /\ RowValue(2, 6) = Num(GroupSum(Get(f, "currentLiabilities")))
    /\ RowValue(2, 10) = Num(GroupSum(Get(f, "fixedLiabilities")))

\* the balance sheet of a record that was not reconciled and stores totalLiabilities 50
\* while all its liabilities are 0: the current liabilities total row reads 50
C23_Counterexample ==
  /\ kpc = "returned" /\ kType = "BS" /\ rpc = "ready"
  /\ TypedBalanceSheet(Get(yObj, "financials"))
  /\ GroupSum(Get(Get(yObj, "financials"), "currentLiabilities")) = 0
  /\ GroupSum(Get(Get(yObj, "financials"), "fixedLiabilities")) = 0
  /\ Get(Get(yObj, "financials"), "totalLiabilities") = Num(50)
  /\ RowValue(2, 6) = Num(50)

\* the interior totals of the balance sheet made of a reconciled record are the sums of
\* their groups
C23_ReconciledTotals ==
  rpc = "returned" => C23_InteriorTotals

-----------------------------------------------------------------------------
(* The history editor: HistoryEditor.handleCellChange on a reconciled row *)

MaxEdits == 2

\* the columns of the editor; the first four are number inputs, the last two text areas
NumberFields == {"revenue", "operatingProfit", "cashFlow", "employees"}
TextFields == {"marketContext", "companyEvent"}

\* e.target.value of a number input: the empty string or a decimal number
NumberTexts == {Str(<<>>), Str(<<"5", "0">>), Str(<<"-", "5", "0">>)}
AreaTexts == {Str(<<"x">>)}

\* the if-chain that syncs an edit to the detailed financials; f is the financials object
\* of the row, which the copied row shares with the row before
SyncFinancials(f0, field0, numValue0) ==
  The({
    IF field = "revenue"
    THEN The({Put(f2, "operatingProfit", Minus(Get(f2, "grossProfit"), Get(f2, "sga")))
              : f2 \in {Put(Put(f, "sales", numValue), "grossProfit",
                            Minus(numValue, Get(f, "cogs")))}})
    ELSE IF field = "operatingProfit"
    THEN Put(Put(f, "operatingProfit", numValue), "sga",
             Minus(Get(f, "grossProfit"), numValue))
    ELSE IF field = "cashFlow" THEN Put(f, "operatingCF", numValue)
    ELSE f
    : <<f, field, numValue>> \in {<<f0, field0, numValue0>>}})

\* handleCellChange(index, field, value) on the row data[index]: the row handed to onUpdate
handleCellChange(row0, field0, value0) ==
  The({
    The({IF Truthy(Get(row1, "financials"))
         THEN Put(row1, "financials", SyncFinancials(Get(row1, "financials"), field, numValue))
         ELSE row1
         : row1 \in {Put(row, field, IF field \in TextFields THEN value ELSE numValue)}})
    : <<row, field, value, numValue>> \in {<<row0, field0, value0, ToNumber(value0)>>}})

\* one cell edit on the reconciled row; the financials object is changed in place, so the
\* record the row was copied from sees the change too
EditCell ==
  /\ rpc = "returned"
  /\ Len(events) < MaxEdits
  /\ \E field \in NumberFields \cup TextFields :
       \E value \in IF field \in TextFields THEN AreaTexts ELSE NumberTexts :
         \E row \in {handleCellChange(yRet, field, value)} :
           /\ yRet' = row
           /\ yObj' = IF Truthy(Get(row, "financials"))
                      THEN Put(yObj, "financials", Get(row, "financials"))
                      ELSE yObj
           /\ events' = Append(events, <<"edit", field, value>>)
  /\ UNCHANGED <<yIn, rpc, env, hist, llm, kType, kpc, kChunks, kIdx, kResults, kResp, kMark,
                 kFailed, kDebug, made, timer, batchVars, parseVars, monthVars, normVars>>

NextEdit == Reconcile \/ EditCell

\* a row of the history as the LLM gives it: the headline figures and the financials block
Row(hop, f) ==
  Compact([year |-> Num(2020), revenue |-> Num(100), operatingProfit |-> hop,
           cashFlow |-> Num(0), employees |-> Num(10), marketContext |-> Str(<<"m">>),
           companyEvent |-> Str(<<"e">>), financials |-> f])

\* the rows the editor starts from: one without a financials block, and rows whose numeric
\* sales, cogs and sga come with or without a supplied grossProfit and operatingProfit
InitEdit ==
  /\ \/ yIn = Row(Num(50), Undef)
     \/ \E s \in {Num(50), Num(100)}, g \in {Num(0), Num(50)}, gp \in {Undef, Num(50)},
           op \in {Undef, Num(50)}, hop \in {Num(0), Num(50)} :
          yIn = Row(hop, PLInput(s, Num(50), g, gp, op, Num(0), Num(0)))
  /\ yObj = yIn /\ yRet = Pending /\ rpc = "ready"
  /\ IdleParse /\ IdleMonths /\ IdleNorm
  /\ env = <<>> /\ hist = <<>> /\ llm = {} /\ kType = "" /\ kpc = "idle" /\ kChunks = <<>>
  /\ kIdx = 0 /\ kResults = <<>> /\ kResp = <<>> /\ kMark = <<>> /\ kFailed = {}
  /\ kDebug = <<>> /\ made = {} /\ timer = 0 /\ events = <<>>
  /\ IdleBatch

SpecEdit == InitEdit /\ [][NextEdit]_vars

\* grossProfit = sales - cogs and operatingProfit = grossProfit - sga in the financials f
PLChainHolds(f) ==
  /\ Get(f, "grossProfit") = Minus(Get(f, "sales"), Get(f, "cogs"))
  /\ Get(f, "operatingProfit") = Minus(Get(f, "grossProfit"), Get(f, "sga"))
  /\ IsNum(Get(f, "grossProfit")) /\ IsNum(Get(f, "operatingProfit"))

\* C24: starting from the row the reconciliation pass returned, after any sequence of cell
\* edits a row with a financials block has grossProfit = sales - cogs and operatingProfit =
\* grossProfit - sga.
C24_EditsKeepPLChain ==
  (rpc = "returned" /\ Truthy(FinOut)) => PLChainHolds(FinOut)

\* the pass returned a row with sales = cogs = 50 under the supplied grossProfit 50, and an
\* edit of the employees cell left it so
C24_Counterexample ==
  /\ rpc = "returned" /\ Len(events) = 1 /\ events[1][2] = "employees"
  /\ Get(FinOut, "sales") = Num(50) /\ Get(FinOut, "cogs") = Num(50)
  /\ Get(FinOut, "grossProfit") = Num(50)

\* a row whose identities held when the pass returned keeps them under every edit
C24_EditsPreserve ==
  (/\ rpc = "returned" /\ Truthy(FinOut)
   /\ PLChainHolds(Get(normalizeYear(yIn).ret, "financials")))
  => PLChainHolds(FinOut)

\* C25: after any sequence of cell edits, the operatingProfit of the financials block of a
\* row equals the headline operatingProfit of the row.
C25_HeadlineMatchesNested ==
  (rpc = "returned" /\ Truthy(FinOut) /\ Len(events) > 0) =>
    Get(FinOut, "operatingProfit") = Get(yRet, "operatingProfit")

\* headline and nested operatingProfit were both 50 when the pass returned; the revenue
\* cell was edited to -50 and the nested value became -150 under the headline 50
C25_Counterexample ==
  /\ rpc = "returned" /\ events = <<<<"edit", "revenue", Str(<<"-", "5", "0">>)>>>>
  /\ Get(Get(normalizeYear(yIn).ret, "financials"), "operatingProfit") = Num(50)
  /\ Get(yIn, "operatingProfit") = Num(50)
  /\ Get(yRet, "operatingProfit") = Num(50)
  /\ Get(FinOut, "operatingProfit") = Num(0 - 150)

-----------------------------------------------------------------------------
(* Further properties of the normalizers *)

\* s.replace(/^[^\n]*\n?/, ""): s without its first line
WithoutFirstLine(s0) ==
  The({
    The({IF nl = 0 - 1 THEN <<>> ELSE slice(s, nl + 1, Len(s))
         : nl \in {indexOf(s, <<"\n">>, 0)}})
    : s \in {s0}})

\* the branch of normalizeNewsletters for an array of numbers only: for every expected year
\* the block of the raw text from its marker Year:<year> (or the bare year) up to the next
\* Year: marker or SnippetLen characters, without its first line and its marks, trimmed
AllNumbersBlocks(rawText0, inputYears0) ==
  The({
    [i \in 1..Len(inputYears) |->
       The({
         The({Obj([year |-> ToNumber(inputYears[i]),
                   content |->
                     Str(IF pos2 = 0 - 1 THEN <<>>
                         ELSE The({Trim(StripMarks(WithoutFirstLine(
                                     IF next # 0 - 1 THEN slice(text, pos2, next)
                                     ELSE slice(text, pos2, pos2 + SnippetLen))))
                                   : next \in {indexOf(text, <<"Y", "e", "a", "r", ":">>, pos2 + 1)}}))])
              : pos2 \in {IF pos = 0 - 1 THEN indexOf(text, ToChars(inputYears[i]), 0) ELSE pos}})
         : pos \in {indexOf(text, <<"Y", "e", "a", "r", ":">> \o ToChars(inputYears[i]), 0)}})]
    : <<text, inputYears>> \in {<<rawText0, inputYears0>>}})

\* the newsletters array of the call holds numbers only, and at least one
AllNumbersCall ==
  /\ nFn = "normalizeNewsletters" /\ IsObj(nIn) /\ IsArr(Get(nIn, "newsletters"))
  /\ Get(nIn, "newsletters").v # <<>>
  /\ \A i \in 1..Len(Get(nIn, "newsletters").v) : IsNum(Get(nIn, "newsletters").v[i])

\* C26: when the newsletters array holds numbers only, normalizeNewsletters rebuilds the
\* entries from the raw text: one entry per expected year, its content the block of the raw
\* text after the marker of the year, and no value of the numeric array.
C26_NumbersUseRawText ==
  (npc = "returned" /\ AllNumbersCall /\ nYears # <<>>) =>
    Get(nRet, "newsletters") = Arr(AllNumbersBlocks(nRaw, nYears))

\* the array [7] for the expected year 2020 came back as the entry {2020, "7"}, whatever
\* the raw text holds after Year:2020
C26_Counterexample ==
  /\ npc = "returned" /\ AllNumbersCall
  /\ Get(nIn, "newsletters") = Arr(<<Num(7)>>) /\ nYears = <<Num(2020)>>
  /\ indexOf(nRaw, <<"Y", "e", "a", "r", ":", "2", "0", "2", "0">>, 0) = 0
  /\ Get(nRet, "newsletters") = Arr(<<Obj([year |-> Num(2020), content |-> Str(<<"7">>)])>>)


\* the key of the primary array of the call
PrimaryKey == IF nFn = "normalizeNewsletters" THEN "newsletters" ELSE "years"

\* the primary array of the call holds objects only, and at least one
ObjectsCall ==
  /\ nFn \in {"normalizeNewsletters", "normalizeJE"}
  /\ IsObj(nIn) /\ IsArr(Get(nIn, PrimaryKey)) /\ Get(nIn, PrimaryKey).v # <<>>
  /\ \A i \in 1..Len(Get(nIn, PrimaryKey).v) :
       Truthy(Get(nIn, PrimaryKey).v[i]) /\ TypeofObject(Get(nIn, PrimaryKey).v[i])

\* the entry i of the normalized array has the i-th expected year whenever the object i of
\* the primary array had no year
Backfilled ==
  \A i \in 1..Len(Get(nIn, PrimaryKey).v) :
    (Nullish(Get(Get(nIn, PrimaryKey).v[i], "year")) /\ i <= Len(nYears)) =>
      /\ IsArr(Get(nRet, PrimaryKey)) /\ i <= Len(Get(nRet, PrimaryKey).v)
      /\ Get(Get(nRet, PrimaryKey).v[i], "year") = nYears[i]

\* C27: for both normalizers, when the primary array holds objects and the object at the
\* position i has no year, the normalized entry i has the i-th expected year.
C27_YearBackfill ==
  (npc = "returned" /\ ObjectsCall) => Backfilled

\* normalizeJE returned the one object of years with its twelve months and without a year,
\* the expected year being 2020
C27_Counterexample ==
  /\ npc = "returned" /\ nFn = "normalizeJE"
  /\ nIn = Obj([years |-> Arr(<<Opaque>>)]) /\ nYears = <<Num(2020)>>
  /\ Len(Get(nRet, "years").v) = 1
  /\ Get(Get(nRet, "years").v[1], "year") = Undef
  /\ Len(Get(Get(nRet, "years").v[1], "months").v) = 12

\* normalizeNewsletters alone gives the i-th expected year to the object i without a year
C27_NewslettersBackfill ==
  (npc = "returned" /\ ObjectsCall /\ nFn = "normalizeNewsletters") => Backfilled

-----------------------------------------------------------------------------
(* Further properties of the reconciliation pass *)

\* C28: the pass is pure: after it returned, the record it was given and its financials
\* object hold the field values they held before the call.
C28_InputUnchanged ==
  rpc = "returned" => yObj = yIn

\* the record given stored totalAssets 50 over assets of 200; after the call the very
\* object given stores 200
C28_Counterexample ==
  /\ Reconciled
  /\ Get(FinIn, "totalAssets") = Num(50)
  /\ Get(Get(yObj, "financials"), "totalAssets") = Num(200)
  /\ Get(yObj, "financials") = FinOut


\* C29: the pass applied to the record it returned gives that record again, also when
\* cash-flow or P&L input fields of the first record were missing or blank strings.
C29_Idempotent ==
  rpc = "returned" => normalizeYear(yRet).ret = yRet

\* sales was missing beside cogs 50 and a supplied grossProfit 50: the first pass kept
\* grossProfit 50 and set sales to 0, and a second pass gives grossProfit -50
C29_Counterexample ==
  /\ Reconciled
  /\ Get(FinIn, "sales") = Undef /\ Get(FinIn, "cogs") = Num(50)
  /\ Get(FinIn, "grossProfit") = Num(50)
  /\ Get(FinOut, "sales") = Num(0) /\ Get(FinOut, "grossProfit") = Num(50)
  /\ Get(Get(normalizeYear(yRet).ret, "financials"), "grossProfit") = Num(0 - 50)

\* operatingCF was missing beside a supplied cashAtEnd 50: the first pass kept cashAtEnd and
\* set operatingCF to 0, and a second pass recomputes cashAtEnd from the four flows
C29_CashFlowCounterexample ==
  /\ Reconciled
  /\ Get(FinIn, "operatingCF") \in {Undef, Str(<<>>)} /\ Get(FinIn, "cashAtEnd") = Num(50)
  /\ Get(FinOut, "operatingCF") = Num(0) /\ Get(FinOut, "cashAtEnd") = Num(50)
  /\ Get(Get(normalizeYear(yRet).ret, "financials"), "cashAtEnd") # Num(50)

-----------------------------------------------------------------------------
(* Further properties of the bulk generator *)

\* C30: whenever the response of a chunk fails parsing, normalization or validation, what is
\* written to the debug store under the request id of the chunk is the raw response text of
\* that chunk, and the failure is not thrown to the caller.
C30_RawTextSaved ==
  /\ \A c \in kFailed : \E i \in 1..Len(kDebug) : kDebug[i][1] = kType /\ kDebug[i][2] = c
  /\ \A i \in 1..Len(kDebug) :
       ~kResp[kDebug[i][2]].rejected => kDebug[i][3] = Str(kResp[kDebug[i][2]].text)
  /\ kFailed # {} => kpc # "threw"

\* the answer "not json" to the one chunk of a journal call was not saved: the debug store
\* holds the string of the error thrown for the missing years array
C30_Counterexample ==
  /\ kpc = "returned" /\ kType = "JE" /\ kFailed = {1}
  /\ kResp = <<Text(Prose)>>
  /\ kDebug = <<<<"JE", 1, Str(StructureError("JE"))>>>>

=============================================================================
